---------------------------- MODULE Spec2Model ----------------------------
(***************************************************************************)
(* A model of the scarlet color library (src/src).  The library is a set   *)
(* of pure functions over f64 triples.  Every f64 is modelled by a decimal *)
(* floating-point number <<m, e>> (value m * 10^e) with a four-digit       *)
(* mantissa, rounded to nearest (ties to even) after every operation, with *)
(* the IEEE special values NaN and +/-infinity.  The model therefore keeps *)
(* what f64 arithmetic does to the code (rounding, non-associativity,      *)
(* division by zero giving infinity or NaN) at a lower precision.          *)
(***************************************************************************)
EXTENDS Integers, Sequences, FiniteSets, TLC

VARIABLES op, self, arg, ret

vars == <<op, self, arg, ret>>

\* A let binding: { e(x) : x \in {v} } computes v before e, as the code
\* computes a value before it passes it on; Only takes the result out.
Only(S) == CHOOSE x \in S : TRUE

(***************************************************************************)
(* f64, modelled as decimal floating point.  An intermediate value that is *)
(* used more than once is always an operator parameter.                    *)
(***************************************************************************)
\* A normalised finite non-zero value has MantLo <= |m| < MantHi.
MantLo == 10 * 100
MantHi == 10 * MantLo

Zero == <<0, 0>>
NaN  == <<0, 1>>
PInf == <<0, 2>>
NInf == <<0, 3>>

IsNaN(x) == x[1] = 0 /\ x[2] = 1
IsInf(x) == x[1] = 0 /\ x[2] >= 2
IsFinite(x) == x[1] # 0 \/ x[2] = 0

Abs(n) == IF n < 0 THEN -n ELSE n
Sgn(n) == IF n < 0 THEN -1 ELSE IF n = 0 THEN 0 ELSE 1

\* The number of decimal digits of n > 0.
Digits(n) ==
  IF n < 10000
  THEN (IF n < 100 THEN (IF n < 10 THEN 1 ELSE 2) ELSE (IF n < 1000 THEN 3 ELSE 4))
  ELSE IF n < 1000000 THEN (IF n < 100000 THEN 5 ELSE 6)
  ELSE IF n < 100000000 THEN (IF n < 10000000 THEN 7 ELSE 8)
  ELSE IF n < 1000000000 THEN 9 ELSE 10

\* The quotient q of a division by p with remainder r, rounded to nearest,
\* ties to even.
RoundQR(q, r, p) == IF 2 * r > p \/ (2 * r = p /\ q % 2 = 1) THEN q + 1 ELSE q

\* A rounded mantissa q that reached MantHi is MantLo, one exponent up.
NormQ(s, q, e) == IF q = MantHi THEN <<s * MantLo, e + 1>> ELSE <<s * q, e>>

\* s * a * 10^e for a > 0 of d digits, rounded to a four-digit mantissa.
NormD(s, a, d, e) ==
  IF d <= 4 THEN <<s * a * 10^(4 - d), e - (4 - d)>>
  ELSE NormQ(s, RoundQR(a \div 10^(d - 4), a % 10^(d - 4), 10^(d - 4)), e + d - 4)

\* The f64 nearest to the integer n times 10^e.
Norm(n, e) == IF n = 0 THEN Zero ELSE NormD(Sgn(n), Abs(n), Digits(Abs(n)), e)

\* A decimal literal of the source: F(8951, -4) is 0.8951.
F(n, e) == Norm(n, e)
I(n) == Norm(n, 0)

SignOf(x) == IF x[1] # 0 THEN Sgn(x[1]) ELSE IF x[2] = 2 THEN 1 ELSE IF x[2] = 3 THEN -1 ELSE 0

FNeg(x) ==
  IF x[1] # 0 THEN <<-x[1], x[2]>>
  ELSE IF x[2] = 2 THEN NInf ELSE IF x[2] = 3 THEN PInf ELSE x

FAbs(x) == IF x[1] < 0 THEN <<-x[1], x[2]>> ELSE IF x = NInf THEN PInf ELSE x

\* hi + lo for finite non-zero values, the exponent of hi the larger.
AddAligned(hi, lo) ==
  IF hi[2] - lo[2] > 5 THEN hi
  ELSE Norm(hi[1] * 10^(hi[2] - lo[2]) + lo[1], lo[2])

FAdd(x, y) ==
  IF x[1] # 0 /\ y[1] # 0
  THEN (IF x[2] >= y[2] THEN AddAligned(x, y) ELSE AddAligned(y, x))
  ELSE IF IsNaN(x) \/ IsNaN(y) THEN NaN
  ELSE IF IsInf(x) THEN (IF IsInf(y) /\ x # y THEN NaN ELSE x)
  ELSE IF x[1] = 0 THEN y
  ELSE x

FSub(x, y) == FAdd(x, FNeg(y))

FMul(x, y) ==
  IF x[1] # 0 /\ y[1] # 0 THEN Norm(x[1] * y[1], x[2] + y[2])
  ELSE IF IsNaN(x) \/ IsNaN(y) THEN NaN
  ELSE IF IsInf(x) \/ IsInf(y)
       THEN (IF x = Zero \/ y = Zero THEN NaN
             ELSE IF SignOf(x) * SignOf(y) > 0 THEN PInf ELSE NInf)
  ELSE Zero

\* s * a / b for integers a, b > 0, times 10^e: the quotient carries two
\* digits more than a mantissa, the last one standing for a remainder.
DivAligned(s, a, b, e) == Norm(s * ((a \div b) * 10 + (IF a % b = 0 THEN 0 ELSE 1)), e)

FDiv(x, y) ==
  IF x[1] # 0 /\ y[1] # 0
  THEN DivAligned(Sgn(x[1]) * Sgn(y[1]), Abs(x[1]) * 100000, Abs(y[1]), x[2] - y[2] - 6)
  ELSE IF IsNaN(x) \/ IsNaN(y) THEN NaN
  ELSE IF IsInf(x)
       THEN (IF IsInf(y) THEN NaN
             ELSE IF SignOf(x) * (IF SignOf(y) < 0 THEN -1 ELSE 1) > 0 THEN PInf ELSE NInf)
  ELSE IF IsInf(y) THEN Zero
  ELSE IF y = Zero
       THEN (IF x = Zero THEN NaN ELSE IF SignOf(x) > 0 THEN PInf ELSE NInf)
  ELSE Zero

\* The place of a value other than NaN in the order of f64: sign, then
\* exponent, then mantissa.
Rank(x) ==
  IF x[1] # 0 THEN <<Sgn(x[1]), Sgn(x[1]) * x[2], x[1]>>
  ELSE IF x[2] = 2 THEN <<2, 0, 0>> ELSE IF x[2] = 3 THEN <<-2, 0, 0>> ELSE <<0, 0, 0>>

RankLt(a, b) ==
  a[1] < b[1] \/ (a[1] = b[1] /\ (a[2] < b[2] \/ (a[2] = b[2] /\ a[3] < b[3])))

\* The comparisons of f64: every comparison with NaN is false.
FEq(x, y) == ~IsNaN(x) /\ x = y
FLt(x, y) == ~IsNaN(x) /\ ~IsNaN(y) /\ RankLt(Rank(x), Rank(y))
FLe(x, y) == ~IsNaN(x) /\ ~IsNaN(y) /\ ~RankLt(Rank(y), Rank(x))
FGt(x, y) == FLt(y, x)
FGe(x, y) == FLe(y, x)


(***************************************************************************)
(* The f64 methods the library calls.  floor, ceil, round, % and sqrt are  *)
(* exact or correctly rounded as in IEEE 754; the others (powf with the    *)
(* exponents the code uses, exp, sin, cos, atan2) are computed in the      *)
(* model's own arithmetic to about its last digit, as a libm does.         *)
(***************************************************************************)
Integral(x) == ~IsFinite(x) \/ x[2] >= 0

\* f64::floor.
floor(x) ==
  IF Integral(x) THEN x
  ELSE IF x[2] <= -4 THEN (IF x[1] > 0 THEN Zero ELSE I(-1))
  ELSE I(x[1] \div 10^(-x[2]))

\* f64::ceil.
ceil(x) == FNeg(floor(FNeg(x)))

\* f64::trunc.
trunc(x) == IF x[1] >= 0 THEN floor(x) ELSE ceil(x)

\* f64::round: to the nearest integer, halves away from zero.
round(x) ==
  IF Integral(x) THEN x
  ELSE IF x[2] < -4 THEN Zero
  ELSE I(Sgn(x[1]) * ((2 * Abs(x[1]) + 10^(-x[2])) \div (2 * 10^(-x[2]))))

\* The integer a finite integral x stands for (|x| < 10^9).
ToInt(x) == IF x[2] >= 0 THEN x[1] * 10^x[2] ELSE x[1] \div 10^(-x[2])

RECURSIVE RemPow(_, _, _)
\* (a * 10^k) % b.
RemPow(a, k, b) == IF k = 0 THEN a % b ELSE RemPow((a % b) * 10, k - 1, b)

\* Rust's % on f64 (fmod): the remainder of the truncated division, exact.
FRem(x, y) ==
  IF ~IsFinite(x) \/ IsNaN(y) \/ y = Zero THEN NaN
  ELSE IF IsInf(y) \/ x = Zero \/ x[2] < y[2] THEN x
  ELSE Norm(Sgn(x[1]) * RemPow(Abs(x[1]), x[2] - y[2], Abs(y[1])), y[2])

\* The largest r with r * r <= n, for n below 10^9: its hundreds, then r.
ISqrtMid(n, h) == CHOOSE r \in h..(h + 99) : r * r <= n /\ n < (r + 1) * (r + 1)
ISqrt(n) ==
  ISqrtMid(n, 100 * (CHOOSE a \in 0..316 : 10000 * a * a <= n /\ n < 10000 * (a + 1) * (a + 1)))

\* The root r of n with a last digit standing for a remainder, times 10^h.
SqrtRounded(n, r, h) == Norm(r * 10 + (IF r * r = n THEN 0 ELSE 1), h - 1)

\* f64::sqrt, correctly rounded.
sqrt(x) ==
  IF IsNaN(x) \/ SignOf(x) < 0 THEN NaN
  ELSE IF x[1] = 0 THEN x
  ELSE IF x[2] % 2 = 0
       THEN SqrtRounded(x[1] * 10000, ISqrt(x[1] * 10000), (x[2] - 4) \div 2)
       ELSE SqrtRounded(x[1] * 100000, ISqrt(x[1] * 100000), (x[2] - 5) \div 2)

\* One turn of the loop of powi: r *= a when the exponent b is odd; then
\* b /= 2, and a *= a unless b has become 0.
powi_step(r, a, b) == IF b % 2 = 1 THEN FMul(r, a) ELSE r

RECURSIVE powi_loop(_, _, _)
powi_loop(r, a, b) ==
  IF b \div 2 = 0 THEN powi_step(r, a, b)
  ELSE powi_loop(powi_step(r, a, b), FMul(a, a), b \div 2)

\* A power that keeps the sign of its base for every exponent.
powi_signed(x, n) == IF n = 0 THEN I(1) ELSE FMul(powi_loop(I(1), x, n - 1), FAbs(x))

\* f64::powi for n >= 0: multiplication by repeated squaring.
powi(x, n) == powi_loop(I(1), x, n)

\* f64::hypot.
hypot(a, b) == sqrt(FAdd(FMul(a, a), FMul(b, b)))

\* y times 10^k.
Scale10(y, k) == IF y[1] = 0 THEN y ELSE <<y[1], y[2] + k>>

\* Starting points of Newton's iteration for the q-th root of t in
\* [10^r, 10^(r+1)): 10^((r+1)/q) rounded up.
RootStart(q, r) ==
  CASE q = 3 -> << <<2155, -3>>, <<4642, -3>>, <<1000, -2>> >>[r + 1]
    [] q = 5 -> << <<1585, -3>>, <<2512, -3>>, <<3982, -3>>, <<6310, -3>>, <<1000, -2>> >>[r + 1]

RECURSIVE Newton(_, _, _, _)
RECURSIVE NewtonStep(_, _, _, _, _)
\* Newton's iteration for the q-th root of a, downwards from y.
Newton(a, q, y, fuel) ==
  IF fuel = 0 THEN y
  ELSE NewtonStep(a, q, y, FDiv(FAdd(FMul(I(q - 1), y), FDiv(a, powi(y, q - 1))), I(q)), fuel)
NewtonStep(a, q, y, next, fuel) ==
  IF FLt(next, y) THEN Newton(a, q, next, fuel - 1) ELSE y

\* The q-th root of x = t * 10^(q * k), t = x[1] * 10^(r - 3) in [1, 10^q).
RootScaled(x, q, r) ==
  Scale10(Newton(<<x[1], r - 3>>, q, RootStart(q, r), 30), (x[2] + 3 - r) \div q)

\* The q-th root (q = 3 or 5) of a finite x > 0.
Root(x, q) == RootScaled(x, q, (x[2] + 3) % q)

PI == <<3142, -3>>
HalfPi == <<1571, -3>>
TwoPi == <<6283, -3>>
LN10 == <<2303, -3>>

to_radians(x) == FMul(x, FDiv(PI, I(180)))
to_degrees(x) == FMul(x, FDiv(I(180), PI))

RECURSIVE HornerFrom(_, _, _, _, _)
\* The sum from its innermost term outwards: acc is the value of the terms
\* from the one at k + step * n on; a NaN stays NaN.
HornerFrom(t, k, step, n, acc) ==
  IF n = 0 \/ IsNaN(acc) THEN acc
  ELSE HornerFrom(t, k, step, n - 1,
         FAdd(I(1), FMul(FDiv(t, I(IF step = 1 THEN k + n - 1
                                   ELSE (k + 2 * (n - 1)) * (k + 2 * (n - 1) + 1))),
                         acc)))

\* 1 + t/k (1 + t/(k+step) (1 + ...)) down to depth n: the Taylor sums of
\* exp (step 1), and of sin and cos (step 2, over two factors).
Horner(t, k, step, n) == HornerFrom(t, k, step, n, I(1))

\* exp(x) = 10^k * exp(x - k ln 10).
ExpSplit(x, k) == Scale10(Horner(FSub(x, FMul(I(k), LN10)), 1, 1, 10), k)

\* f64::exp.
exp(x) ==
  IF x[1] = 0 THEN (IF x[2] = 0 THEN I(1) ELSE IF x[2] = 3 THEN Zero ELSE x)
  ELSE ExpSplit(x, ToInt(round(FDiv(x, LN10))))

RECURSIVE LnSeries(_, _, _)
\* 1/(2j + 1) + z2 * (1/(2j + 3) + z2 * (...)), from the innermost term.
LnSeries(z2, j, acc) ==
  IF j < 0 THEN acc
  ELSE LnSeries(z2, j - 1, FAdd(FDiv(I(1), I(2 * j + 1)), FMul(z2, acc)))

\* ln t = 2z (1 + z^2/3 + z^4/5 + ...) for z = (t - 1) / (t + 1).
LnNear(z) == FMul(FMul(I(2), z), LnSeries(FMul(z, z), 7, Zero))

\* ln(t * 10^k) for t between 10^(-1/2) and 10^(1/2).
LnReduced(t, k) == FAdd(LnNear(FDiv(FSub(t, I(1)), FAdd(t, I(1)))), FMul(I(k), LN10))

\* f64::ln.
ln(x) ==
  IF IsNaN(x) \/ SignOf(x) < 0 THEN NaN
  ELSE IF x[1] = 0 THEN (IF x[2] = 0 THEN NInf ELSE x)
  ELSE LnReduced(<<x[1], IF x[1] > 3162 THEN -4 ELSE -3>>,
                 x[2] + (IF x[1] > 3162 THEN 4 ELSE 3))

\* f64::powf(p / q), by the kind of exponent: a whole exponent (q = 1) by
\* multiplication; the exponents 1/3, 12/5 (2.4) and 9/5 (1.8) by a q-th
\* root; 5/12 (1/2.4) by roots of a root; any other as exp(p/q * ln x).  A
\* negative base with a fractional exponent gives NaN, and 0 and +inf are
\* kept by the positive fractional exponents used.
powf_whole(x, p) == IF IsNaN(x) THEN NaN ELSE powi(x, p)

powf_root(x, p, q) ==
  IF IsNaN(x) \/ SignOf(x) < 0 THEN NaN
  ELSE IF x[1] = 0 THEN x
  ELSE FMul(powi(x, p \div q), Root(powi(x, p % q), q))

powf_root12(x, p) ==
  IF IsNaN(x) \/ SignOf(x) < 0 THEN NaN
  ELSE IF x[1] = 0 THEN x
  ELSE sqrt(sqrt(Root(powi(x, p), 3)))

powf_log(x, p, q) ==
  IF IsNaN(x) \/ SignOf(x) < 0 THEN NaN
  ELSE IF x[1] = 0 THEN x
  ELSE exp(FMul(FDiv(I(p), I(q)), ln(x)))

powf(x, p, q) ==
  IF q = 1 THEN powf_whole(x, p)
  ELSE IF q = 12 THEN powf_root12(x, p)
  ELSE IF q \in {3, 5} THEN powf_root(x, p, q)
  ELSE powf_log(x, p, q)

\* f64::cbrt: the real cube root, of negative values too.
cbrt(x) ==
  IF x[1] = 0 THEN x
  ELSE IF x[1] < 0 THEN FNeg(Root(FNeg(x), 3))
  ELSE Root(x, 3)

\* x reduced to [-PI, PI] by whole turns.
Turned(x) == FSub(x, FMul(round(FDiv(x, TwoPi)), TwoPi))

SinSmall(r) == FMul(r, Horner(FNeg(FMul(r, r)), 2, 2, 5))
CosSmall(r) == Horner(FNeg(FMul(r, r)), 1, 2, 6)

\* sin of r in [-PI, PI], folded into [-PI/2, PI/2].
SinTurned(r) ==
  SinSmall(IF FGt(r, HalfPi) THEN FSub(PI, r)
           ELSE IF FLt(r, FNeg(HalfPi)) THEN FSub(FNeg(PI), r) ELSE r)

\* cos of r in [0, PI].
CosTurned(r) == IF FGt(r, HalfPi) THEN FNeg(CosSmall(FSub(PI, r))) ELSE CosSmall(r)

\* f64::sin and f64::cos of an angle in radians.
sin(x) == IF ~IsFinite(x) THEN NaN ELSE SinTurned(Turned(x))
cos(x) == IF ~IsFinite(x) THEN NaN ELSE CosTurned(FAbs(Turned(x)))

RECURSIVE AtanFrom(_, _, _, _)
\* The series from its innermost term outwards; a NaN stays NaN.
AtanFrom(u, k, n, acc) ==
  IF n = 0 \/ IsNaN(acc) THEN acc
  ELSE AtanFrom(u, k, n - 1, FSub(FDiv(I(1), I(k + 2 * (n - 1))), FMul(u, acc)))

\* 1 - u/3 + u^2/5 - ..., as 1/k - u (1/(k+2) - u (...)).
AtanSeries(u, k, n) == AtanFrom(u, k, n, FDiv(I(1), I(k + 2 * n)))

\* atan(w) for |w| <= tan(PI/8).
AtanOdd(w) == FMul(w, AtanSeries(FMul(w, w), 1, 5))

\* atan(z) for 0 <= z <= 1.
AtanUnit(z) ==
  IF FLe(z, F(4142, -4)) THEN AtanOdd(z)
  ELSE FAdd(FDiv(PI, I(4)), AtanOdd(FDiv(FSub(z, I(1)), FAdd(z, I(1)))))

\* atan(ay / ax) for ay > 0 and ax >= 0.
AtanFirst(ay, ax) ==
  IF IsInf(ay) /\ IsInf(ax) THEN FDiv(PI, I(4))
  ELSE IF FLe(ay, ax) THEN AtanUnit(FDiv(ay, ax))
  ELSE FSub(HalfPi, AtanUnit(FDiv(ax, ay)))

\* The angle a of the first quadrant, moved to the quadrant of the signs.
AtanQuadrant(sy, sx, a) ==
  IF sx < 0 THEN (IF sy < 0 THEN FNeg(FSub(PI, a)) ELSE FSub(PI, a))
  ELSE IF sy < 0 THEN FNeg(a) ELSE a

\* f64::atan2(y, x), in radians; atan2(0, 0) is 0.
atan2(y, x) ==
  IF IsNaN(y) \/ IsNaN(x) THEN NaN
  ELSE IF y = Zero THEN (IF SignOf(x) < 0 THEN PI ELSE Zero)
  ELSE AtanQuadrant(SignOf(y), SignOf(x), AtanFirst(FAbs(y), FAbs(x)))

(***************************************************************************)
(* 3-vectors and 3x3 matrices (rows of a matrix are its three entries).    *)
(***************************************************************************)
\* Matrix3 * Vector3.
MatVec(M, v) ==
  [i \in 1..3 |-> FAdd(FAdd(FMul(M[i][1], v[1]), FMul(M[i][2], v[2])), FMul(M[i][3], v[3]))]

\* The adjugate of m divided by the determinant, given three minors of m.
InvCofactors(m, minor_m12_m23, minor_m11_m23, minor_m11_m22, determinant) ==
  << << FDiv(minor_m12_m23, determinant),
        FDiv(FSub(FMul(m[1][3], m[3][2]), FMul(m[3][3], m[1][2])), determinant),
        FDiv(FSub(FMul(m[1][2], m[2][3]), FMul(m[2][2], m[1][3])), determinant) >>,
     << FDiv(FNeg(minor_m11_m23), determinant),
        FDiv(FSub(FMul(m[1][1], m[3][3]), FMul(m[3][1], m[1][3])), determinant),
        FDiv(FSub(FMul(m[1][3], m[2][1]), FMul(m[2][3], m[1][1])), determinant) >>,
     << FDiv(minor_m11_m22, determinant),
        FDiv(FSub(FMul(m[1][2], m[3][1]), FMul(m[3][2], m[1][1])), determinant),
        FDiv(FSub(FMul(m[1][1], m[2][2]), FMul(m[2][1], m[1][2])), determinant) >> >>

InvMinors(m, minor_m12_m23, minor_m11_m23, minor_m11_m22) ==
  InvCofactors(m, minor_m12_m23, minor_m11_m23, minor_m11_m22,
    FAdd(FSub(FMul(m[1][1], minor_m12_m23), FMul(m[1][2], minor_m11_m23)),
         FMul(m[1][3], minor_m11_m22)))

\* consts::inv: the inverse by cofactors, as Matrix3::try_inverse computes it.
inv(m) ==
  InvMinors(m,
    FSub(FMul(m[2][2], m[3][3]), FMul(m[3][2], m[2][3])),
    FSub(FMul(m[2][1], m[3][3]), FMul(m[3][1], m[2][3])),
    FSub(FMul(m[2][1], m[3][2]), FMul(m[3][1], m[2][2])))

\* The entries 0.8951, 0.2664, -0.1614 / -0.7502, 1.7135, 0.0367 /
\* 0.0389, -0.0685, 1.0296, each the nearest f64 of the model.
BRADFORD_TRANSFORM_MAT ==
  << << <<8951, -4>>,  <<2664, -4>>,  <<-1614, -4>> >>,
     << <<-7502, -4>>, <<1714, -3>>,  <<3670, -5>> >>,
     << <<3890, -5>>,  <<-6850, -5>>, <<1030, -3>> >> >>

\* The entries 3.2406, -1.5372, -0.4986 / -0.9689, 1.8758, 0.0415 /
\* 0.0557, -0.2040, 1.0570.
STANDARD_RGB_TRANSFORM_MAT ==
  << << <<3241, -3>>,  <<-1537, -3>>, <<-4986, -4>> >>,
     << <<-9689, -4>>, <<1876, -3>>,  <<4150, -5>> >>,
     << <<5570, -5>>,  <<-2040, -4>>, <<1057, -3>> >> >>

BRADFORD == BRADFORD_TRANSFORM_MAT
BRADFORD_INV == inv(BRADFORD_TRANSFORM_MAT)
SRGB == STANDARD_RGB_TRANSFORM_MAT
SRGB_INV == inv(STANDARD_RGB_TRANSFORM_MAT)

(***************************************************************************)
(* Illuminants.  An illuminant is [kind, xyz]; xyz is the triple a Custom  *)
(* illuminant carries and is all zero for the named ones.                  *)
(***************************************************************************)
ZeroTriple == <<Zero, Zero, Zero>>
D50 == [kind |-> "D50", xyz |-> ZeroTriple]
D55 == [kind |-> "D55", xyz |-> ZeroTriple]
D65 == [kind |-> "D65", xyz |-> ZeroTriple]
D75 == [kind |-> "D75", xyz |-> ZeroTriple]
Custom(t) == [kind |-> "Custom", xyz |-> t]

\* The derived PartialEq of Illuminant: the same variant and, for Custom,
\* f64-equal components.
IlluminantEq(a, b) ==
  /\ a.kind = b.kind
  /\ a.kind = "Custom" => \A i \in 1..3 : FEq(a.xyz[i], b.xyz[i])

\* The rows [0.96422, 1, 0.82521], [0.95682, 1, 0.92129],
\* [0.95047, 1, 1.08884], [0.94972, 1, 1.22638].
ILLUMINANT_WHITE_POINTS ==
  << << <<9642, -4>>, <<1000, -3>>, <<8252, -4>> >>,
     << <<9568, -4>>, <<1000, -3>>, <<9213, -4>> >>,
     << <<9505, -4>>, <<1000, -3>>, <<1089, -3>> >>,
     << <<9497, -4>>, <<1000, -3>>, <<1226, -3>> >> >>

\* The row of a named illuminant: the order of the enum.
IlluminantRow(kind) ==
  CASE kind = "D50" -> 1 [] kind = "D55" -> 2 [] kind = "D65" -> 3 [] kind = "D75" -> 4

\* A white point that is the triplet as given, without the division by Y.
white_point_raw(ill) ==
  IF ill.kind = "Custom" THEN ill.xyz ELSE ILLUMINANT_WHITE_POINTS[IlluminantRow(ill.kind)]

white_point(ill) ==
  IF ill.kind = "Custom"
  THEN << FDiv(ill.xyz[1], ill.xyz[2]), I(1), FDiv(ill.xyz[3], ill.xyz[2]) >>
  ELSE ILLUMINANT_WHITE_POINTS[IlluminantRow(ill.kind)]

(***************************************************************************)
(* XYZColor                                                                *)
(***************************************************************************)
\* Every color value carries the name of its type in the field space.
XYZColor(x, y, z, ill) == [space |-> "XYZ", x |-> x, y |-> y, z |-> z, illuminant |-> ill]

\* Vector3::new(self.x, self.y, self.z), and the color of a vector.
XYZVec(xyz) == <<xyz.x, xyz.y, xyz.z>>
XYZOf(v, ill) == XYZColor(v[1], v[2], v[3], ill)

\* r_c, g_c, b_c: each cone response scaled by the ratio of the white
\* references.
ConeScale(rgb, rgb_w, rgb_wr) == [i \in 1..3 |-> FDiv(FMul(rgb[i], rgb_wr[i]), rgb_w[i])]

\* An adaptation that leaves the cone space through the forward matrix.
bradford_adapt_forward(xyz, other_illuminant) ==
  XYZOf(MatVec(BRADFORD,
               ConeScale(MatVec(BRADFORD, XYZVec(xyz)),
                         MatVec(BRADFORD, white_point(xyz.illuminant)),
                         MatVec(BRADFORD, white_point(other_illuminant)))),
        other_illuminant)

\* The else branch of XYZColor::color_adapt: the Bradford transform.
bradford_adapt(xyz, other_illuminant) ==
  XYZOf(MatVec(BRADFORD_INV,
               ConeScale(MatVec(BRADFORD, XYZVec(xyz)),
                         MatVec(BRADFORD, white_point(xyz.illuminant)),
                         MatVec(BRADFORD, white_point(other_illuminant)))),
        other_illuminant)

\* An adaptation without the same-illuminant short circuit.
color_adapt_always(xyz, other_illuminant) == bradford_adapt(xyz, other_illuminant)

\* XYZColor::color_adapt.
color_adapt(xyz, other_illuminant) ==
  IF IlluminantEq(other_illuminant, xyz.illuminant)
  THEN xyz
  ELSE bradford_adapt(xyz, other_illuminant)

(***************************************************************************)
(* RGBColor, CIELABColor, CIELCHColor and the Color trait.                 *)
(***************************************************************************)
RGBColor(r, g, b) == [space |-> "RGB", r |-> r, g |-> g, b |-> b]
CIELABColor(l, a, b) == [space |-> "CIELAB", l |-> l, a |-> a, b |-> b]
CIELCHColor(l, c, h) == [space |-> "CIELCH", l |-> l, c |-> c, h |-> h]

\* The closure gamma_correct of RGBColor::from_xyz.
gamma_correct(x) ==
  IF FLe(x, F(31308, -7)) THEN FMul(F(1292, -2), x)
  ELSE FSub(FMul(F(1055, -3), powf_root12(x, 5)), F(55, -3))

\* The closure uncorrect_gamma of RGBColor::to_xyz.
uncorrect_gamma(x) ==
  IF FLe(x, F(4045, -5)) THEN FDiv(x, F(1292, -2))
  ELSE powf_root(FDiv(FAdd(x, F(55, -3)), F(1055, -3)), 12, 5)

\* lin_rgb_vec.iter().map(gamma_correct), and the color of the result.
GammaVec(v) == [i \in 1..3 |-> gamma_correct(v[i])]
RGBOf(v) == RGBColor(v[1], v[2], v[3])

RGB_from_xyz(xyz) ==
  Only({ RGBOf(GammaVec(MatVec(SRGB, XYZVec(xyz_d65)))) :
           xyz_d65 \in {color_adapt(xyz, D65)} })

\* [self.r, self.g, self.b].iter().map(uncorrect_gamma).
UngammaVec(v) == [i \in 1..3 |-> uncorrect_gamma(v[i])]

RGB_to_xyz(c, illuminant) ==
  Only({ color_adapt(converted, illuminant) :
           converted \in {XYZOf(MatVec(SRGB_INV, UngammaVec(<<c.r, c.g, c.b>>)), D65)} })

\* The closures f and f_inv of CIELABColor.
lab_delta == FDiv(I(6), I(29))

lab_f(x) ==
  IF FLe(x, powf_whole(lab_delta, 3))
  THEN FAdd(FDiv(x, FMul(FMul(I(3), lab_delta), lab_delta)), FDiv(I(4), I(29)))
  ELSE powf_root(x, 1, 3)

lab_f_inv(x) ==
  IF FGt(x, lab_delta) THEN FMul(FMul(x, x), x)
  ELSE FMul(FMul(FMul(I(3), lab_delta), lab_delta), FSub(x, FDiv(I(4), I(29))))

\* xyz_scaled, xyz_transformed and the l, a, b computed from it.
ScaledBy(v, white) == [i \in 1..3 |-> FDiv(v[i], white[i])]
LabFVec(v) == [i \in 1..3 |-> lab_f(v[i])]
LabOf(t) ==
  CIELABColor(FSub(FMul(I(116), t[2]), I(16)),
              FMul(I(500), FSub(t[1], t[2])),
              FMul(I(200), FSub(t[2], t[3])))

CIELAB_from_xyz(xyz) ==
  Only({ LabOf(LabFVec(ScaledBy(XYZVec(xyz_adapted), white_point(D50)))) :
           xyz_adapted \in {color_adapt(xyz, D50)} })

\* The three arguments of f_inv, from (l + 16) / 116.
LabInvArgs(c, fy) == <<FAdd(fy, FDiv(c.a, I(500))), fy, FSub(fy, FDiv(c.b, I(200)))>>
\* x, y, z: xyz_n[i] * f_inv(...).
LabInvVec(xyz_n, v) == [i \in 1..3 |-> FMul(xyz_n[i], lab_f_inv(v[i]))]

CIELAB_to_xyz(c, illuminant) ==
  Only({ color_adapt(xyz, illuminant) :
           xyz \in {XYZOf(LabInvVec(white_point(D50),
                                    LabInvArgs(c, FDiv(FAdd(c.l, I(16)), I(116)))), D50)} })

\* The hue of CIELCHColor::from_xyz from unbounded_h.
lch_hue(unbounded_h) ==
  IF FLt(unbounded_h, Zero) THEN FAdd(unbounded_h, I(360))
  ELSE IF FGt(unbounded_h, I(360)) THEN FSub(unbounded_h, I(360))
  ELSE unbounded_h

\* if val < 0.0 { val + 360.0 } else { val }
lch_hue_pos(val) == IF FLt(val, Zero) THEN FAdd(val, I(360)) ELSE val

LchOf(lab) ==
  CIELCHColor(lab.l, hypot(lab.b, lab.a), lch_hue(to_degrees(atan2(lab.b, lab.a))))

CIELCH_from_xyz(xyz) == Only({ LchOf(lab) : lab \in {CIELAB_from_xyz(xyz)} })

CIELCH_to_xyz(c, illuminant) ==
  Only({ CIELAB_to_xyz(lab, illuminant) :
           lab \in {CIELABColor(c.l, FMul(c.c, cos(to_radians(c.h))),
                                FMul(c.c, sin(to_radians(c.h))))} })

\* HSVColor and its conversions, which go through sRGB.
HSVColor(h, s, v) == [space |-> "HSV", h |-> h, s |-> s, v |-> v]

\* f64::max and f64::min: a NaN operand is ignored.
f64_max(a, b) == IF IsNaN(a) THEN b ELSE IF IsNaN(b) THEN a ELSE IF FGt(a, b) THEN a ELSE b
f64_min(a, b) == IF IsNaN(a) THEN b ELSE IF IsNaN(b) THEN a ELSE IF FLt(a, b) THEN a ELSE b

\* components.iter().cloned().fold(-1.0, f64::max) and fold(2.0, f64::min).
hsv_max_c(rgb) == f64_max(f64_max(f64_max(I(-1), rgb.r), rgb.g), rgb.b)
hsv_min_c(rgb) == f64_min(f64_min(f64_min(I(2), rgb.r), rgb.g), rgb.b)

\* hue and saturation of HSVColor::from_xyz.
hsv_hue(rgb, max_c, chroma) ==
  IF FEq(chroma, Zero) THEN Zero
  ELSE IF FEq(max_c, rgb.r)
       THEN FMul(FRem(FDiv(FSub(rgb.g, rgb.b), chroma), I(6)), I(60))
  ELSE IF FEq(max_c, rgb.g)
       THEN FAdd(FMul(FDiv(FSub(rgb.b, rgb.r), chroma), I(60)), I(120))
  ELSE FAdd(FMul(FDiv(FSub(rgb.r, rgb.g), chroma), I(60)), I(240))

hsv_saturation(chroma, value) == IF FEq(value, Zero) THEN Zero ELSE FDiv(chroma, value)

HsvOf(rgb, max_c, chroma) ==
  HSVColor(hsv_hue(rgb, max_c, chroma), hsv_saturation(chroma, max_c), max_c)

HsvFromMax(rgb, max_c) == HsvOf(rgb, max_c, FSub(max_c, hsv_min_c(rgb)))

HsvFromRgb(rgb) == HsvFromMax(rgb, hsv_max_c(rgb))

HSV_from_xyz(xyz) == Only({ HsvFromRgb(rgb) : rgb \in {RGB_from_xyz(xyz)} })

\* x, (r1, g1, b1) and the offset of HSVColor::to_xyz.
hsv_x(h, chroma) ==
  FMul(chroma, FSub(I(1), FAbs(FSub(FRem(FDiv(h, I(60)), I(2)), I(1)))))

hsv_rgb1(h, chroma, x) ==
  IF FLe(h, I(60)) THEN <<chroma, x, Zero>>
  ELSE IF FLe(h, I(120)) THEN <<x, chroma, Zero>>
  ELSE IF FLe(h, I(180)) THEN <<Zero, chroma, x>>
  ELSE IF FLe(h, I(240)) THEN <<Zero, x, chroma>>
  ELSE IF FLe(h, I(300)) THEN <<x, Zero, chroma>>
  ELSE <<chroma, Zero, x>>

HsvOffset(v1, offset) == RGBColor(FAdd(v1[1], offset), FAdd(v1[2], offset), FAdd(v1[3], offset))

HsvToRgb(c, chroma) == HsvOffset(hsv_rgb1(c.h, chroma, hsv_x(c.h, chroma)), FSub(c.v, chroma))

HSV_to_xyz(c, illuminant) ==
  Only({ RGB_to_xyz(rgb, illuminant) : rgb \in {HsvToRgb(c, FMul(c.s, c.v))} })

(***************************************************************************)
(* AdobeRGBColor, ROMMRGBColor, CIELUVColor, CIELCHuvColor and HSLColor.   *)
(***************************************************************************)
AdobeRGBColor(r, g, b) == [space |-> "AdobeRGB", r |-> r, g |-> g, b |-> b]
ROMMRGBColor(r, g, b) == [space |-> "ROMMRGB", r |-> r, g |-> g, b |-> b]
CIELUVColor(l, u, v) == [space |-> "CIELUV", l |-> l, u |-> u, v |-> v]
CIELCHuvColor(l, c, h) == [space |-> "CIELCHuv", l |-> l, c |-> c, h |-> h]
HSLColor(h, s, l) == [space |-> "HSL", h |-> h, s |-> s, l |-> l]

\* The entries 2.04159, -0.56501, -0.34473 / -0.96924, 1.87957, 0.04156 /
\* 0.01344, -0.11836, 1.01517.
ADOBE_RGB_TRANSFORM_MAT ==
  << << F(204159, -5), F(-56501, -5), F(-34473, -5) >>,
     << F(-96924, -5), F(187957, -5), F(4156, -5) >>,
     << F(1344, -5),   F(-11836, -5), F(101517, -5) >> >>

\* The entries 0.7976749, 0.1351917, 0.0313534 / 0.2880402, 0.7118741,
\* 0.0000857 / 0, 0, 0.8252100.
ROMM_RGB_TRANSFORM_MAT ==
  << << F(7976749, -7), F(1351917, -7), F(313534, -7) >>,
     << F(2880402, -7), F(7118741, -7), F(857, -7) >>,
     << Zero,           Zero,           F(8252100, -7) >> >>

ADOBE_RGB == ADOBE_RGB_TRANSFORM_MAT
ADOBE_RGB_INV == inv(ADOBE_RGB_TRANSFORM_MAT)
ROMM == ROMM_RGB_TRANSFORM_MAT
\* ROMM_LU.solve(v): the solution of ROMM * xyz = v.
ROMM_LU_solve(v) == MatVec(inv(ROMM_RGB_TRANSFORM_MAT), v)

\* A clamp closure that passes every value on.
adobe_clamp_none(x) == x

\* The closures clamp, gamma and ungamma of AdobeRGBColor.
adobe_clamp(x) == IF FGt(x, I(1)) THEN I(1) ELSE IF FLt(x, Zero) THEN Zero ELSE x
adobe_gamma(x) == powf_log(x, 256, 563)
adobe_ungamma(x) == powf_log(x, 563, 256)

\* gamma(clamp(rgb[i])) on the three components, and the color of the
\* result.
AdobeGammaVec(rgb) == [i \in 1..3 |-> adobe_gamma(adobe_clamp(rgb[i]))]
AdobeColorOf(v) == AdobeRGBColor(v[1], v[2], v[3])
AdobeOf(rgb) == AdobeColorOf(AdobeGammaVec(rgb))

\* ungamma on the three components.
AdobeUngammaVec(v) == [i \in 1..3 |-> adobe_ungamma(v[i])]

AdobeRGB_from_xyz(xyz) ==
  Only({ AdobeOf(MatVec(ADOBE_RGB, XYZVec(xyz_c))) : xyz_c \in {color_adapt(xyz, D65)} })

AdobeRGB_to_xyz(c, illuminant) ==
  Only({ color_adapt(converted, illuminant) :
           converted \in {XYZOf(MatVec(ADOBE_RGB_INV,
                                       AdobeUngammaVec(<<c.r, c.g, c.b>>)), D65)} })

\* The closures gamma, fix_flare and clamp of ROMMRGBColor::from_xyz; the
\* cutoff (2.0f64).powf(-9.0) is 0.001953125.
romm_gamma(x) ==
  IF FLt(x, F(1953125, -9)) THEN FMul(x, I(16)) ELSE powf_log(x, 5, 9)

romm_fix_flare(x) ==
  IF FLt(x, F(3125, -5)) THEN FAdd(F(3473, -6), FMul(F(622829, -7), x))
  ELSE FAdd(F(3473, -6), FMul(F(996527, -6), powf_root(x, 9, 5)))

romm_clamp(x) == IF FLt(x, Zero) THEN Zero ELSE IF FGt(x, I(1)) THEN I(1) ELSE x

\* fix_flare(gamma(clamp(rr_gg_bb[i]))) on the three components.
RommEncodedVec(v) == [i \in 1..3 |-> romm_fix_flare(romm_gamma(romm_clamp(v[i])))]
RommColorOf(v) == ROMMRGBColor(v[1], v[2], v[3])
RommOf(v) == RommColorOf(RommEncodedVec(v))

ROMMRGB_from_xyz(xyz) ==
  Only({ RommOf(MatVec(ROMM, XYZVec(xyz_c))) : xyz_c \in {color_adapt(xyz, D50)} })

\* The closures gamma_inv and fix_flare_inv of ROMMRGBColor::to_xyz; the
\* cutoff of fix_flare_inv is 0.005419340625.
romm_gamma_inv(x) ==
  IF FGe(x, F(3125, -5)) THEN powf_root(x, 9, 5) ELSE FDiv(x, I(16))

romm_fix_flare_inv(x) ==
  IF FGe(x, F(541934, -8)) THEN powf_log(FDiv(FSub(x, F(3473, -6)), F(996527, -6)), 5, 9)
  ELSE FDiv(FSub(x, F(3473, -6)), F(622829, -7))

\* gamma_inv(fix_flare_inv(x)) on the three components.
RommDecodedVec(v) == [i \in 1..3 |-> romm_gamma_inv(romm_fix_flare_inv(v[i]))]

ROMMRGB_to_xyz(c, illuminant) ==
  Only({ color_adapt(xyz, illuminant) :
           xyz \in {XYZOf(ROMM_LU_solve(RommDecodedVec(<<c.r, c.g, c.b>>)), D50)} })

\* XYZColor::white_point.
XYZColor_white_point(illuminant) == XYZOf(white_point(illuminant), illuminant)

\* The closures denom, u_func and v_func of CIELUVColor, and delta.
luv_denom(color) == FAdd(FAdd(color.x, FMul(I(15), color.y)), FMul(I(3), color.z))
luv_u_func(color) == FDiv(FMul(I(4), color.x), luv_denom(color))
luv_v_func(color) == FDiv(FMul(I(9), color.y), luv_denom(color))
luv_delta == FDiv(I(6), I(29))

\* l of CIELUVColor::from_xyz, from y_scaled.
luv_l(y_scaled) ==
  IF FLe(y_scaled, powf_whole(luv_delta, 3))
  THEN FMul(powf_whole(FDiv(I(2), luv_delta), 3), y_scaled)
  ELSE FSub(FMul(I(116), powf_root(y_scaled, 1, 3)), I(16))

\* u and v from l, u_prime and v_prime.
LuvOf(l, u_prime, v_prime, wp) ==
  CIELUVColor(l,
              FMul(FMul(I(13), l), FSub(u_prime, luv_u_func(wp))),
              FMul(FMul(I(13), l), FSub(v_prime, luv_v_func(wp))))

LuvFrom(xyz_c, wp) ==
  LuvOf(luv_l(FDiv(xyz_c.y, wp.y)), luv_u_func(xyz_c), luv_v_func(xyz_c), wp)

CIELUV_from_xyz(xyz) ==
  Only({ LuvFrom(xyz_c, XYZColor_white_point(D50)) : xyz_c \in {color_adapt(xyz, D50)} })

\* y of CIELUVColor::to_xyz.
luv_y(l, wp) ==
  IF FLe(l, I(8)) THEN FMul(FMul(wp.y, l), powf_whole(FDiv(luv_delta, I(2)), 3))
  ELSE FMul(wp.y, powf_whole(FDiv(FAdd(l, I(16)), I(116)), 3))

\* x and z from y, u_prime and v_prime.
LuvXyz(y, u_prime, v_prime) ==
  XYZColor(FDiv(FMul(FMul(y, I(9)), u_prime), FMul(I(4), v_prime)),
           y,
           FDiv(FMul(y, FSub(FSub(I(12), FMul(I(3), u_prime)), FMul(I(20), v_prime))),
                FMul(I(4), v_prime)),
           D50)

LuvTo(c, wp) ==
  LuvXyz(luv_y(c.l, wp),
         FAdd(FDiv(c.u, FMul(I(13), c.l)), luv_u_func(wp)),
         FAdd(FDiv(c.v, FMul(I(13), c.l)), luv_v_func(wp)))

CIELUV_to_xyz(c, illuminant) ==
  Only({ color_adapt(xyz, illuminant) : xyz \in {LuvTo(c, XYZColor_white_point(D50))} })

\* c and h of CIELCHuvColor::from_xyz; the hue is brought into range by the
\* same three branches as in CIELCHColor::from_xyz.
LchuvOf(luv) ==
  CIELCHuvColor(luv.l, hypot(luv.v, luv.u), lch_hue(to_degrees(atan2(luv.v, luv.u))))

CIELCHuv_from_xyz(xyz) == Only({ LchuvOf(luv) : luv \in {CIELUV_from_xyz(xyz)} })

CIELCHuv_to_xyz(c, illuminant) ==
  Only({ CIELUV_to_xyz(luv, illuminant) :
           luv \in {CIELUVColor(c.l, FMul(c.c, cos(to_radians(c.h))),
                                FMul(c.c, sin(to_radians(c.h))))} })

\* saturation of HSLColor::from_xyz; max_c, min_c and the hue are computed
\* by the same text as in HSVColor::from_xyz.
hsl_saturation(chroma, lightness) ==
  IF FEq(lightness, I(1)) \/ FEq(lightness, Zero) THEN Zero
  ELSE FDiv(chroma, FSub(I(1), FAbs(FSub(FMul(I(2), lightness), I(1)))))

HslOf(rgb, max_c, chroma, lightness) ==
  HSLColor(hsv_hue(rgb, max_c, chroma), hsl_saturation(chroma, lightness), lightness)

HslFromExtremes(rgb, max_c, min_c) ==
  HslOf(rgb, max_c, FSub(max_c, min_c), FDiv(FAdd(max_c, min_c), I(2)))

HslFromRgb(rgb) == HslFromExtremes(rgb, hsv_max_c(rgb), hsv_min_c(rgb))

HSL_from_xyz(xyz) == Only({ HslFromRgb(rgb) : rgb \in {RGB_from_xyz(xyz)} })

\* chroma of HSLColor::to_xyz; x and (r1, g1, b1) are computed by the same
\* text as in HSVColor::to_xyz, the offset is l - chroma / 2.
hsl_chroma(c) == FMul(FSub(I(1), FAbs(FSub(FMul(I(2), c.l), I(1)))), c.s)

HslToRgb(c, chroma) ==
  HsvOffset(hsv_rgb1(c.h, chroma, hsv_x(c.h, chroma)), FSub(c.l, FDiv(chroma, I(2))))

HSL_to_xyz(c, illuminant) ==
  Only({ RGB_to_xyz(rgb, illuminant) : rgb \in {HslToRgb(c, hsl_chroma(c))} })

\* Color::from_xyz and Color::to_xyz of the type a value has.
from_xyz(T, xyz) ==
  CASE T = "XYZ"    -> xyz
    [] T = "RGB"    -> RGB_from_xyz(xyz)
    [] T = "CIELAB" -> CIELAB_from_xyz(xyz)
    [] T = "CIELCH" -> CIELCH_from_xyz(xyz)
    [] T = "HSV"    -> HSV_from_xyz(xyz)
    [] T = "HSL"    -> HSL_from_xyz(xyz)
    [] T = "AdobeRGB" -> AdobeRGB_from_xyz(xyz)
    [] T = "ROMMRGB"  -> ROMMRGB_from_xyz(xyz)
    [] T = "CIELUV"   -> CIELUV_from_xyz(xyz)
    [] T = "CIELCHuv" -> CIELCHuv_from_xyz(xyz)

to_xyz(c, illuminant) ==
  CASE c.space = "XYZ"    -> c
    [] c.space = "RGB"    -> RGB_to_xyz(c, illuminant)
    [] c.space = "CIELAB" -> CIELAB_to_xyz(c, illuminant)
    [] c.space = "CIELCH" -> CIELCH_to_xyz(c, illuminant)
    [] c.space = "HSV"    -> HSV_to_xyz(c, illuminant)
    [] c.space = "HSL"    -> HSL_to_xyz(c, illuminant)
    [] c.space = "AdobeRGB" -> AdobeRGB_to_xyz(c, illuminant)
    [] c.space = "ROMMRGB"  -> ROMMRGB_to_xyz(c, illuminant)
    [] c.space = "CIELUV"   -> CIELUV_to_xyz(c, illuminant)
    [] c.space = "CIELCHuv" -> CIELCHuv_to_xyz(c, illuminant)

\* Color::convert::<T>.
convert(c, T) == Only({ from_xyz(T, xyz) : xyz \in {to_xyz(c, D50)} })

\* Color::hue, Color::lightness, Color::chroma and Color::saturation: each
\* converts self (lightness to CIELABColor, the others to CIELCHColor) and
\* returns a value read from the result.
derived_type(name) == IF name = "lightness" THEN "CIELAB" ELSE "CIELCH"

\* if lch.l == 0.0 { 0.0 } else { lch.c / lch.l }
saturation_of(lch) == IF FEq(lch.l, Zero) THEN Zero ELSE FDiv(lch.c, lch.l)

derived_value(name, converted) ==
  CASE name = "hue"        -> converted.h
    [] name = "lightness"  -> converted.l
    [] name = "chroma"     -> converted.c
    [] name = "saturation" -> saturation_of(converted)

derived(name, c) == derived_value(name, convert(c, derived_type(name)))

hue(c) == derived("hue", c)
lightness(c) == derived("lightness", c)
chroma(c) == derived("chroma", c)
saturation(c) == derived("saturation", c)

(***************************************************************************)
(* Color::distance: CIEDE2000.  The computation is a chain of stages, each *)
(* adding to a record the values the code names in that part of the        *)
(* function; distance_terms is the whole record, distance the result.      *)
(***************************************************************************)
\* c^7 / (c^7 + 25^7), under the square roots of g and r_c.
ratio7(c) == FDiv(powi(c, 7), FAdd(powi(c, 7), powi(I(25), 7)))

\* g, from c_star_1 and c_star_2 (c_bar_ab is their mean).
g_of(c_star_1, c_star_2) ==
  FMul(F(5, -1), FSub(I(1), sqrt(ratio7(FDiv(FAdd(c_star_1, c_star_2), I(2))))))

\* The closure h_func of Color::distance.
h_func(a, b) ==
  IF FEq(a, Zero) /\ FEq(b, Zero) THEN Zero
  ELSE lch_hue_pos(to_degrees(atan2(b, a)))

\* The closure deg_cos of Color::distance.
deg_cos(x) == cos(to_radians(x))

\* step 1: a_prime_1 and a_prime_2.
distance_a_primes(lab1, lab2, g) ==
  [lab1 |-> lab1, lab2 |-> lab2,
   a_prime_1 |-> FMul(FAdd(I(1), g), lab1.a),
   a_prime_2 |-> FMul(FAdd(I(1), g), lab2.a)]

\* step 1: c_prime and h_prime of both colors.
distance_primes(d) ==
  d @@ [c_prime_1 |-> hypot(d.a_prime_1, d.lab1.b),
        c_prime_2 |-> hypot(d.a_prime_2, d.lab2.b),
        h_prime_1 |-> h_func(d.a_prime_1, d.lab1.b),
        h_prime_2 |-> h_func(d.a_prime_2, d.lab2.b)]

\* A hue difference that ignores zero chroma.
delta_angle_h_unguarded(c_prime_1, c_prime_2, d) ==
  IF FLe(FAbs(d), I(180)) THEN d
  ELSE IF FGt(d, I(180)) THEN FSub(d, I(360))
  ELSE FAdd(d, I(360))

\* A hue difference that is never brought back into [-180, 180].
delta_angle_h_unwrapped(c_prime_1, c_prime_2, d) ==
  IF FEq(FMul(c_prime_1, c_prime_2), Zero) THEN Zero ELSE d

\* delta_angle_h of Color::distance; d is h_prime_2 - h_prime_1.
delta_angle_h_of(c_prime_1, c_prime_2, d) ==
  IF FEq(FMul(c_prime_1, c_prime_2), Zero) THEN Zero
  ELSE IF FLe(FAbs(d), I(180)) THEN d
  ELSE IF FGt(d, I(180)) THEN FSub(d, I(360))
  ELSE FAdd(d, I(360))

\* A mean hue that is the first color's hue.
h_bar_prime_first(c_prime_1, c_prime_2, h_prime_1, h_prime_2) == h_prime_1

\* A mean hue that is always the arithmetic mean.
h_bar_prime_halved(c_prime_1, c_prime_2, h_prime_1, h_prime_2) ==
  IF FEq(FMul(c_prime_1, c_prime_2), Zero) THEN FAdd(h_prime_1, h_prime_2)
  ELSE FDiv(FAdd(h_prime_1, h_prime_2), I(2))

\* h_bar_prime of Color::distance.
h_bar_prime_of(c_prime_1, c_prime_2, h_prime_1, h_prime_2) ==
  IF FEq(FMul(c_prime_1, c_prime_2), Zero) THEN FAdd(h_prime_1, h_prime_2)
  ELSE IF FLe(FAbs(FSub(h_prime_2, h_prime_1)), I(180))
       THEN FDiv(FAdd(h_prime_1, h_prime_2), I(2))
  ELSE IF FLt(FAdd(h_prime_1, h_prime_2), I(360))
       THEN FDiv(FAdd(FAdd(h_prime_1, h_prime_2), I(360)), I(2))
  ELSE FDiv(FSub(FAdd(h_prime_1, h_prime_2), I(360)), I(2))

\* step 2 and the means of step 3.
distance_deltas(d) ==
  d @@ [delta_l |-> FSub(d.lab2.l, d.lab1.l),
        delta_c |-> FSub(d.c_prime_2, d.c_prime_1),
        delta_angle_h |->
          delta_angle_h_of(d.c_prime_1, d.c_prime_2, FSub(d.h_prime_2, d.h_prime_1)),
        l_bar_prime |-> FDiv(FAdd(d.lab1.l, d.lab2.l), I(2)),
        c_bar_prime |-> FDiv(FAdd(d.c_prime_1, d.c_prime_2), I(2)),
        h_bar_prime |-> h_bar_prime_of(d.c_prime_1, d.c_prime_2, d.h_prime_1, d.h_prime_2)]

\* t, from h_bar_prime.
t_of(h_bar_prime) ==
  FSub(FAdd(FAdd(FSub(I(1), FMul(F(17, -2), deg_cos(FSub(h_bar_prime, I(30))))),
                 FMul(F(24, -2), deg_cos(FMul(I(2), h_bar_prime)))),
            FMul(F(32, -2), deg_cos(FAdd(FMul(I(3), h_bar_prime), I(6))))),
       FMul(F(20, -2), deg_cos(FSub(FMul(I(4), h_bar_prime), I(63)))))

\* s_l, from (l_bar_prime - 50)^2.
s_l_of(lsq) == FAdd(I(1), FDiv(FMul(F(15, -3), lsq), sqrt(FAdd(I(20), lsq))))

\* step 3: delta_h and the weights.
distance_weights(d) ==
  d @@ [delta_h |-> FMul(FMul(I(2), sqrt(FMul(d.c_prime_1, d.c_prime_2))),
                         sin(to_radians(FDiv(d.delta_angle_h, I(2))))),
        t |-> t_of(d.h_bar_prime),
        delta_theta |->
          FMul(I(30), exp(FNeg(powi(FDiv(FSub(d.h_bar_prime, I(275)), I(25)), 2)))),
        r_c |-> FMul(I(2), sqrt(ratio7(d.c_bar_prime))),
        s_l |-> s_l_of(powi(FSub(d.l_bar_prime, I(50)), 2)),
        s_c |-> FAdd(I(1), FMul(F(45, -3), d.c_bar_prime))]

\* step 3: s_h, r_t and the three quotients of the final sum.
distance_quotients(d) ==
  d @@ [r_t |-> FMul(FNeg(d.r_c), sin(to_radians(FMul(I(2), d.delta_theta)))),
        l_term |-> FDiv(d.delta_l, d.s_l),
        c_term |-> FDiv(d.delta_c, d.s_c),
        h_term |-> FDiv(d.delta_h, FAdd(I(1), FMul(FMul(F(15, -3), d.c_bar_prime), d.t)))]

\* The sum under the final square root.
distance_radicand(d) ==
  d @@ [radicand |->
          FAdd(FAdd(FAdd(powi(d.l_term, 2), powi(d.c_term, 2)), powi(d.h_term, 2)),
               FMul(FMul(d.r_t, d.c_term), d.h_term))]

distance_result(d) == d @@ [result |-> sqrt(d.radicand)]

distance_terms(lab1, lab2) ==
  distance_result(distance_radicand(distance_quotients(distance_weights(
    distance_deltas(distance_primes(
      distance_a_primes(lab1, lab2,
                        g_of(hypot(lab1.a, lab1.b), hypot(lab2.a, lab2.b)))))))))

\* distance with its intermediate values, and distance itself.
distance_record(a, b) ==
  Only({ distance_terms(lab1, lab2) :
           lab1 \in {convert(a, "CIELAB")}, lab2 \in {convert(b, "CIELAB")} })

distance(a, b) == distance_record(a, b).result

\* |a - b| <= tol, as the tests compare f64 values.
Close(a, b, tol) == FLe(FAbs(FSub(a, b)), tol)

(***************************************************************************)
(* Chromatic adaptation: a hub value is adapted along a path of            *)
(* illuminants.  self is the value the path starts from, arg the targets   *)
(* applied so far, ret the value after the last of them.                   *)
(***************************************************************************)
MaxAdapts == 2

\* A custom light like the "shade" of the color_adapt example, and one of
\* zero luminance, which white_point() divides by.
ShadeLight == Custom(<<F(5, -1), F(55, -2), F(8, -1)>>)
DarkLight  == Custom(<<I(1), Zero, I(1)>>)

Illuminants == {D50, D55, D65, D75, ShadeLight, DarkLight}

XYZInputs ==
  { XYZColor(x, y, z, ill) :
      x \in {F(-25, -2), F(5, -1), F(12, -1)},
      y \in {Zero, F(4, -1), F(75, -2)},
      z \in {F(2, -1), F(6, -1), I(1)},
      ill \in Illuminants }

AdaptInit ==
  /\ op = "new"
  /\ self \in XYZInputs
  /\ arg = << >>
  /\ ret = self

ColorAdapt(other_illuminant) ==
  /\ op \in {"new", "color_adapt"}
  /\ Len(arg) < MaxAdapts
  /\ op' = "color_adapt"
  /\ arg' = Append(arg, other_illuminant)
  /\ ret' = color_adapt(ret, other_illuminant)
  /\ UNCHANGED self

AdaptNext == \E t \in Illuminants : ColorAdapt(t)

SpecAdapt == AdaptInit /\ [][AdaptNext]_vars

\* C1: adapting a hub value to the illuminant it already has returns it
\* unchanged: the same x, y, z and the same illuminant, for every illuminant,
\* Custom included.
AdaptSameIsIdentity ==
  (op = "color_adapt" /\ Len(arg) = 1 /\ arg[1] = self.illuminant) => ret = self

AdaptSameWitness ==
  /\ op = "color_adapt" /\ Len(arg) = 1
  /\ arg[1] = self.illuminant
  /\ self.illuminant.kind = "Custom"
  /\ ret = self
  /\ bradford_adapt(self, arg[1]) # self

\* The illuminants the Bradford scaling is defined for: the white point is
\* finite and none of its three cone responses is zero.
Adaptable(ill) ==
  \A i \in 1..3 :
    LET r == MatVec(BRADFORD, white_point(ill))[i] IN IsFinite(r) /\ r # Zero

\* The tolerance test_xyz_color_adaptation accepts between two paths.
AdaptTol == F(1, -2)

SamePoint(a, b) ==
  /\ Close(a.x, b.x, AdaptTol) /\ Close(a.y, b.y, AdaptTol) /\ Close(a.z, b.z, AdaptTol)
  /\ a.illuminant = b.illuminant

\* C2 as stated: adapting through any I1 to any I2 agrees with adapting to
\* I2 directly, for all illuminants.
AdaptPathIndependentAll ==
  (op = "color_adapt" /\ Len(arg) = 2) =>
     /\ SamePoint(ret, color_adapt(self, arg[2]))
     /\ ret.illuminant = arg[2]

\* C2, amended: the same for the illuminants whose white point is finite
\* with non-zero cone responses (the source, I1 and I2).
AdaptPathIndependent ==
  (/\ op = "color_adapt" /\ Len(arg) = 2
   /\ Adaptable(self.illuminant) /\ Adaptable(arg[1]) /\ Adaptable(arg[2])) =>
     /\ SamePoint(ret, color_adapt(self, arg[2]))
     /\ ret.illuminant = arg[2]

AdaptPathWitness ==
  /\ op = "color_adapt" /\ Len(arg) = 2
  /\ Adaptable(self.illuminant) /\ Adaptable(arg[1]) /\ Adaptable(arg[2])
  /\ self.illuminant # arg[1] /\ arg[1] # arg[2] /\ arg[2] = self.illuminant
  /\ ret # self
  /\ SamePoint(ret, self)


(***************************************************************************)
(* Distance specification: two colors are built, then a.distance(b) runs.  *)
(***************************************************************************)
\* Colors of four types: neutral ones (black, white, grey), pairs whose hues
\* are more than 180 degrees apart with hue sums on both sides of 360, and
\* ordinary ones.
DistInputs ==
  { CIELABColor(Zero, Zero, Zero),
    CIELABColor(I(50), Zero, Zero),
    CIELABColor(I(50), F(25, -1), Zero),
    CIELABColor(I(50), Zero, I(-20)),
    CIELABColor(I(70), I(20), I(12)),
    CIELABColor(I(30), I(30), I(-5)),
    CIELABColor(I(60), I(-30), I(-5)),
    CIELCHColor(I(50), I(30), I(200)),
    CIELCHColor(I(80), Zero, I(120)),
    RGBColor(F(9, -1), Zero, Zero),
    RGBColor(I(1), I(1), I(1)),
    XYZColor(F(5, -1), F(4, -1), F(2, -1), D65) }

DistInit == op = "new" /\ self \in DistInputs /\ arg \in DistInputs /\ ret = Zero

\* self.distance(&arg); ret keeps the intermediate values with the result.
Distance ==
  /\ op = "new"
  /\ op' = "distance"
  /\ ret' = distance_record(self, arg)
  /\ UNCHANGED <<self, arg>>

DistNext == Distance

SpecDistance == DistInit /\ [][DistNext]_vars

\* C3: distance is symmetric: a.distance(b) == b.distance(a) for all colors
\* a and b, with zero chroma on either side and with hues more than 180
\* degrees apart included.
DistanceSymmetric ==
  op = "distance" => FEq(ret.result, distance(arg, self))

\* A pair with hues more than 180 degrees apart and non-zero distance.
DistanceSymmetricWitness ==
  /\ op = "distance"
  /\ FGt(ret.c_prime_1, Zero) /\ FGt(ret.c_prime_2, Zero)
  /\ FGt(FAbs(FSub(ret.h_prime_2, ret.h_prime_1)), I(180))
  /\ FGt(ret.result, Zero)
  /\ FEq(ret.result, distance(arg, self))

\* C4: distance is never negative, never the square root of a negative sum,
\* and a.distance(a) is 0.
DistanceNonNegative ==
  op = "distance" =>
    /\ FGe(ret.radicand, Zero)
    /\ FGe(ret.result, Zero)
    /\ (self = arg => FEq(ret.result, Zero))

\* A chromatic color measured against itself, and a pair where the rotation
\* term r_t * c_term * h_term is negative.
DistanceNonNegativeWitness ==
  /\ op = "distance"
  /\ \/ self = arg /\ FGt(ret.c_prime_1, Zero) /\ FEq(ret.result, Zero)
     \/ FLt(FMul(FMul(ret.r_t, ret.c_term), ret.h_term), Zero) /\ FGt(ret.result, Zero)

\* C5: when either adjusted chroma C' is exactly zero the hue difference and
\* the hue term delta-H are 0, the adjusted hue of an input with a' = b = 0
\* is 0, and the result is sqrt((dL/S_L)^2 + (dC/S_C)^2), a finite number.
ZeroChromaHandled ==
  op = "distance" =>
    /\ (FEq(ret.a_prime_1, Zero) /\ FEq(ret.lab1.b, Zero) => ret.h_prime_1 = Zero)
    /\ (FEq(ret.a_prime_2, Zero) /\ FEq(ret.lab2.b, Zero) => ret.h_prime_2 = Zero)
    /\ (FEq(ret.c_prime_1, Zero) \/ FEq(ret.c_prime_2, Zero) =>
          /\ ret.delta_angle_h = Zero
          /\ ret.delta_h = Zero
          /\ IsFinite(ret.result)
          /\ FEq(ret.result, sqrt(FAdd(powi(ret.l_term, 2), powi(ret.c_term, 2)))))

\* A neutral color measured against a chromatic one.
ZeroChromaWitness ==
  /\ op = "distance"
  /\ FEq(ret.c_prime_1, Zero) /\ FGt(ret.c_prime_2, Zero)
  /\ ret.delta_h = Zero /\ FGt(ret.result, Zero)



(***************************************************************************)
(* The perceptual setters of Color: set_hue and set_lightness.  Each       *)
(* converts the receiver to an intermediate (CIELCH, CIELAB), replaces one *)
(* field and converts back into the receiver's type.                       *)
(***************************************************************************)
\* The value set_hue assigns to lch.h.
set_hue_h(new_hue) ==
  IF FGe(new_hue, Zero) /\ FLe(new_hue, I(360)) THEN new_hue
  ELSE IF FLt(new_hue, Zero)
       THEN FSub(new_hue, FMul(I(360), floor(FDiv(new_hue, I(360)))))
  ELSE FSub(new_hue, FMul(I(360), ceil(FDiv(new_hue, I(360)))))

\* set_hue from the intermediate on: before is self.convert(), mid the
\* intermediate after the assignment, after the new value of *self.
set_hue_from(receiver, lch, h) ==
  [receiver |-> receiver, before |-> lch,
   mid |-> CIELCHColor(lch.l, lch.c, h),
   after |-> convert(CIELCHColor(lch.l, lch.c, h), receiver.space)]

set_hue(receiver, new_hue) ==
  set_hue_from(receiver, convert(receiver, "CIELCH"), set_hue_h(new_hue))

\* A lightness that is written as given.
set_lightness_unclamped(new_lightness) == new_lightness

\* The value set_lightness assigns to lab.l.
set_lightness_l(new_lightness) ==
  IF FGe(new_lightness, Zero) /\ FLe(new_lightness, I(100)) THEN new_lightness
  ELSE IF FLt(new_lightness, Zero) THEN Zero
  ELSE I(100)

set_lightness_from(receiver, lab, l) ==
  [receiver |-> receiver, before |-> lab,
   mid |-> CIELABColor(l, lab.a, lab.b),
   after |-> convert(CIELABColor(l, lab.a, lab.b), receiver.space)]

set_lightness(receiver, new_lightness) ==
  set_lightness_from(receiver, convert(receiver, "CIELAB"), set_lightness_l(new_lightness))

\* Receivers of five types, the blue of the set_hue example among them.
SetterColors ==
  { RGBColor(Zero, Zero, I(1)),
    RGBColor(F(2, -1), F(5, -1), F(8, -1)),
    CIELABColor(I(50), I(20), I(-30)),
    CIELCHColor(I(60), I(30), I(100)),
    HSVColor(I(255), F(6, -1), F(7, -1)),
    XYZColor(F(5, -1), F(4, -1), F(2, -1), D65) }

\* Hues below, inside, on the ends of and above the range 0 to 360.
HueInputs ==
  { I(-400), I(-360), I(-40), Zero, I(90), F(3595, -1), I(360), I(400), I(720), I(1000) }

\* Lightnesses below, inside, on the ends of and above the range 0 to 100.
LightnessInputs ==
  { NInf, I(-20), F(-5, -1), Zero, I(50), I(100), F(1005, -1), I(250), PInf }

SetterInit ==
  /\ op = "new"
  /\ self \in SetterColors
  /\ arg = Zero
  /\ ret = Zero

\* self.set_hue(new_hue): ret keeps the intermediate, self is overwritten.
SetHue(new_hue) ==
  /\ op = "new"
  /\ op' = "set_hue"
  /\ arg' = new_hue
  /\ ret' = set_hue(self, new_hue)
  /\ self' = ret'.after

\* self.set_lightness(new_lightness).
SetLightness(new_lightness) ==
  /\ op = "new"
  /\ op' = "set_lightness"
  /\ arg' = new_lightness
  /\ ret' = set_lightness(self, new_lightness)
  /\ self' = ret'.after

SetterNext ==
  \/ \E new_hue \in HueInputs : SetHue(new_hue)
  \/ \E new_lightness \in LightnessInputs : SetLightness(new_lightness)

SpecSetters == SetterInit /\ [][SetterNext]_vars

\* C6: set_hue wraps any finite new_hue into [0, 360): the hue it assigns to
\* the CIELCH intermediate is at least 0, below 360, and differs from new_hue
\* by a whole multiple of 360.
SetHueWraps ==
  op = "set_hue" =>
    /\ FGe(ret.mid.h, Zero) /\ FLt(ret.mid.h, I(360))
    /\ FRem(FSub(ret.mid.h, arg), I(360)) = Zero

\* C7: set_lightness writes 0 for an input below 0, 100 for an input above
\* 100 and the input itself otherwise to the CIELAB intermediate, whose a and
\* b stay those of the receiver's conversion.
SetLightnessClamps ==
  op = "set_lightness" =>
    /\ (FLt(arg, Zero) => ret.mid.l = Zero)
    /\ (FGt(arg, I(100)) => ret.mid.l = I(100))
    /\ (FGe(arg, Zero) /\ FLe(arg, I(100)) => ret.mid.l = arg)
    /\ ret.before = convert(ret.receiver, "CIELAB")
    /\ ret.mid.a = ret.before.a /\ ret.mid.b = ret.before.b
    /\ self = convert(ret.mid, ret.receiver.space)

\* A lightness above 100 written as 100 to a receiver that is chromatic and
\* of another lightness.
SetLightnessWitness ==
  /\ op = "set_lightness"
  /\ FGt(arg, I(100)) /\ IsFinite(arg)
  /\ ret.mid.l = I(100)
  /\ ~FEq(ret.before.l, I(100))
  /\ ~FEq(ret.before.a, Zero)
  /\ ret.mid.a = ret.before.a


(***************************************************************************)
(* Bound: clamping a color into the gamut of a bounded representation.     *)
(***************************************************************************)
Coord(x, y, z) == [x |-> x, y |-> y, z |-> z]

\* Into<Coord> and From<Coord> of the color types.
into_coord(c) ==
  CASE c.space = "RGB"    -> Coord(c.r, c.g, c.b)
    [] c.space = "HSV"    -> Coord(c.h, c.s, c.v)
    [] c.space = "CIELAB" -> Coord(c.l, c.a, c.b)
    [] c.space = "CIELCH" -> Coord(c.l, c.c, c.h)
    [] c.space = "HSL"    -> Coord(c.h, c.s, c.l)
    [] c.space = "AdobeRGB" -> Coord(c.r, c.g, c.b)
    [] c.space = "ROMMRGB"  -> Coord(c.r, c.g, c.b)
    [] c.space = "CIELUV"   -> Coord(c.l, c.u, c.v)
    [] c.space = "CIELCHuv" -> Coord(c.l, c.c, c.h)

from_coord(T, p) ==
  CASE T = "RGB"    -> RGBColor(p.x, p.y, p.z)
    [] T = "HSV"    -> HSVColor(p.x, p.y, p.z)
    [] T = "CIELAB" -> CIELABColor(p.x, p.y, p.z)
    [] T = "CIELCH" -> CIELCHColor(p.x, p.y, p.z)
    [] T = "HSL"    -> HSLColor(p.x, p.y, p.z)
    [] T = "AdobeRGB" -> AdobeRGBColor(p.x, p.y, p.z)
    [] T = "ROMMRGB"  -> ROMMRGBColor(p.x, p.y, p.z)
    [] T = "CIELUV"   -> CIELUVColor(p.x, p.y, p.z)
    [] T = "CIELCHuv" -> CIELCHuvColor(p.x, p.y, p.z)

\* Bound::bounds() of RGBColor and HSVColor.
bounds(B) ==
  CASE B = "RGB" -> << <<Zero, I(1)>>, <<Zero, I(1)>>, <<Zero, I(1)>> >>
    [] B = "HSV" -> << <<Zero, I(360)>>, <<Zero, I(1)>>, <<Zero, I(1)>> >>

\* One turn of the loop of clamp_coord.
clamp_component(component, range) ==
  IF FLt(component, range[1]) THEN range[1]
  ELSE IF FGt(component, range[2]) THEN range[2]
  ELSE component

clamp_coord(B, point) ==
  Coord(clamp_component(point.x, bounds(B)[1]),
        clamp_component(point.y, bounds(B)[2]),
        clamp_component(point.z, bounds(B)[3]))

\* B::clamp(color): into B, clipped, and back into the type of color.
clamp(B, color) ==
  Only({ convert(from_coord(B, clamp_coord(B, into_coord(converted_color))), color.space) :
           converted_color \in {convert(color, B)} })

MaxClamps == 2

Bounded == {"RGB", "HSV"}

\* Colors of three types, in and out of the two gamuts: the colors of
\* test_zero_one_bounds, test_hue_bounds and the Bound example, greys, and
\* HSV colors with a hue of exactly 360.
ClampInputs ==
  { RGBColor(F(1, -1), F(-2, -1), F(12, -1)),
    RGBColor(F(2, -1), F(5, -1), F(8, -1)),
    RGBColor(F(5, -1), F(25, -2), F(25, -2)),
    RGBColor(I(1), I(1), I(1)),
    RGBColor(F(13, -1), F(5, -1), F(-1, -1)),
    HSVColor(I(360), F(5, -1), F(5, -1)),
    HSVColor(I(360), I(1), I(1)),
    HSVColor(I(255), F(6, -1), F(7, -1)),
    HSVColor(I(375), F(2, -1), F(5, -1)),
    HSVColor(I(120), I(1), I(1)),
    HSVColor(I(200), F(12, -1), F(8, -1)),
    HSVColor(I(60), F(5, -1), F(11, -1)),
    HSVColor(I(30), F(8, -1), F(6, -1)),
    CIELABColor(I(1), I(150), I(-150)),
    CIELABColor(I(50), I(20), I(-30)),
    CIELABColor(I(70), I(-20), I(40)) }

\* arg is the list of gamuts clamped into so far, ret the list of results.
ClampInit ==
  /\ op = "new"
  /\ self \in ClampInputs
  /\ arg = << >>
  /\ ret = << >>

\* B::clamp applied to the last result (to self the first time).
Clamp(B) ==
  /\ Len(arg) < MaxClamps
  /\ op' = "clamp"
  /\ arg' = Append(arg, B)
  /\ ret' = Append(ret, clamp(B, IF ret = << >> THEN self ELSE ret[Len(ret)]))
  /\ UNCHANGED self

ClampNext == \E B \in Bounded : Clamp(B)

SpecClamp == ClampInit /\ [][ClampNext]_vars

\* Equality of two colors of one type up to the rounding of a few
\* conversions: 2 degrees of hue, 1 unit of CIELAB, 0.02 elsewhere.
ClampTol(space) ==
  CASE space = "RGB"    -> <<F(2, -2), F(2, -2), F(2, -2)>>
    [] space = "HSV"    -> <<I(2), F(2, -2), F(2, -2)>>
    [] space = "CIELAB" -> <<I(1), I(1), I(1)>>

SameColor(a, b) ==
  /\ a.space = b.space
  /\ Close(into_coord(a).x, into_coord(b).x, ClampTol(a.space)[1])
  /\ Close(into_coord(a).y, into_coord(b).y, ClampTol(a.space)[2])
  /\ Close(into_coord(a).z, into_coord(b).z, ClampTol(a.space)[3])

\* Every component of a color of type B lies within B::bounds().
InBounds(B, c) == clamp_coord(B, into_coord(c)) = into_coord(c)

\* The color as B sees it: itself when it is of type B, else converted.
SeenBy(B, c) == IF c.space = B THEN c ELSE convert(c, B)

\* C8: clamping is idempotent, B::clamp(B::clamp(v)) == B::clamp(v), and
\* B::clamp(v) == v whenever every component of v in B lies within
\* B::bounds(), components exactly on a bound (HSV hue 360) included.
ClampIdempotentNoOp ==
  /\ (Len(arg) = 2 /\ arg[1] = arg[2]) => SameColor(ret[2], ret[1])
  /\ (Len(arg) >= 1 /\ InBounds(arg[1], SeenBy(arg[1], self))) => SameColor(ret[1], self)

\* The same without the colors whose hue is exactly 360.
ClampIdempotentBelow360 ==
  (self.space = "HSV" => FLt(self.h, I(360))) => ClampIdempotentNoOp


(***************************************************************************)
(* ColorPoint::weighted_average, with the arithmetic of Coord it uses.     *)
(***************************************************************************)
\* Add for Coord, and Mul and Div by a scalar; Div panics on a zero divisor.
coord_add(a, b) == Coord(FAdd(a.x, b.x), FAdd(a.y, b.y), FAdd(a.z, b.z))

coord_mul(c, r) == Coord(FMul(c.x, r), FMul(c.y, r), FMul(c.z, r))

is_zero(rhs) == rhs = Zero

Panic(message) == [tag |-> "panic", message |-> message]

coord_div(c, rhs) ==
  IF is_zero(rhs) THEN Panic("Division by 0!")
  ELSE Coord(FDiv(c.x, rhs), FDiv(c.y, rhs), FDiv(c.z, rhs))

\* Result<Self, ColorCalcError>.
Ok(value) == [tag |-> "Ok", value |-> value]
Err(error) == [tag |-> "Err", error |-> error]

RECURSIVE weights_sum(_, _)
\* weights.iter().sum() over the first n weights, from 0.0.
weights_sum(weights, n) ==
  IF n = 0 THEN Zero ELSE FAdd(weights_sum(weights, n - 1), weights[n])

\* A summand without the division by norm.
weighted_term_raw(c, w, norm) == coord_mul(c, w)

\* c * w / norm, the summand of one color.
weighted_term(c, w, norm) == coord_div(coord_mul(c, w), norm)

RECURSIVE weighted_loop(_, _, _, _, _)
\* for i in 1..weights.len(): coord = coord + others[i - 1].into() *
\* weights[i] / norm (sequences here count from 1).
weighted_loop(coord, others, weights, norm, i) ==
  IF i > Len(others) THEN coord
  ELSE weighted_loop(
         coord_add(coord, weighted_term(into_coord(others[i]), weights[i + 1], norm)),
         others, weights, norm, i + 1)

\* The else branch of weighted_average, norm being the sum of the weights:
\* the first division panics when norm is zero.
weighted_average_of(c, others, weights, norm) ==
  IF is_zero(norm) THEN weighted_term(into_coord(c), weights[1], norm)
  ELSE Ok(from_coord(c.space,
            weighted_loop(weighted_term(into_coord(c), weights[1], norm),
                          others, weights, norm, 1)))

weighted_average(c, others, weights) ==
  IF Len(others) + 1 # Len(weights) THEN Err("MismatchedWeights")
  ELSE weighted_average_of(c, others, weights, weights_sum(weights, Len(weights)))

MaxOthers == 2
MaxWeights == 3

SeqsUpTo(S, n) == UNION { [1..k -> S] : k \in 0..n }

\* Colors of two types, and weights that are zero, negative, a fraction and
\* more than 1.
AverageColors ==
  { RGBColor(F(2, -1), F(5, -1), F(8, -1)),
    RGBColor(F(9, -1), F(1, -1), F(4, -1)),
    HSVColor(F(25, -2), F(6, -1), F(7, -1)),
    HSVColor(F(75, -2), F(2, -1), I(1)) }

WeightInputs == { Zero, I(2), I(-1), F(5, -1) }

AverageInit ==
  /\ op = "new"
  /\ self \in AverageColors
  /\ arg = << >>
  /\ ret = Zero

\* self.weighted_average(others, weights), others being of the type of self.
WeightedAverage(others, weights) ==
  /\ op = "new"
  /\ op' = "weighted_average"
  /\ arg' = [others |-> others, weights |-> weights]
  /\ ret' = weighted_average(self, others, weights)
  /\ UNCHANGED self

AverageNext ==
  \E others \in SeqsUpTo({c \in AverageColors : c.space = self.space}, MaxOthers) :
    \E weights \in SeqsUpTo(WeightInputs, MaxWeights) :
      WeightedAverage(others, weights)

SpecAverage == AverageInit /\ [][AverageNext]_vars

\* C9: weighted_average returns Err(MismatchedWeights) exactly when the
\* number of weights differs from the number of colors, others.len() + 1,
\* and returns Ok when the counts match.
AverageErrIffMismatch ==
  op = "weighted_average" =>
    /\ (ret = Err("MismatchedWeights")) <=> (Len(arg.others) + 1 # Len(arg.weights))
    /\ (Len(arg.others) + 1 = Len(arg.weights)) => ret.tag = "Ok"

\* The tolerance of a comparison between two ways of rounding.
AverageTol == F(5, -2)

SameCoord(a, b) ==
  Close(a.x, b.x, AverageTol) /\ Close(a.y, b.y, AverageTol) /\ Close(a.z, b.z, AverageTol)

RECURSIVE NormalizedSum(_, _, _, _)
\* The sum over the first n colors of (w_i / norm) * c_i, colors[1] being
\* self.
NormalizedSum(colors, weights, norm, n) ==
  IF n = 1 THEN coord_mul(into_coord(colors[1]), FDiv(weights[1], norm))
  ELSE coord_add(NormalizedSum(colors, weights, norm, n - 1),
                 coord_mul(into_coord(colors[n]), FDiv(weights[n], norm)))

ScaleFactors == { I(2), I(-3), F(1, -1) }

Scaled(weights, k) == [i \in 1..Len(weights) |-> FMul(weights[i], k)]

\* C10: with matching counts and weights whose sum is not zero (a zero sum
\* has no normalized weights) the result is Ok and its embedding is the sum
\* of (w_i / sum of the weights) * c_i, weights[0] going with self and
\* weights[i] with others[i - 1]; multiplying every weight by one non-zero
\* factor does not change the outcome.
AverageNormalizes ==
  (op = "weighted_average" /\ Len(arg.others) + 1 = Len(arg.weights)) =>
    /\ ~is_zero(weights_sum(arg.weights, Len(arg.weights))) =>
         /\ ret.tag = "Ok"
         /\ ret.value.space = self.space
         /\ SameCoord(into_coord(ret.value),
                      NormalizedSum(<<self>> \o arg.others, arg.weights,
                                    weights_sum(arg.weights, Len(arg.weights)),
                                    Len(arg.weights)))
    /\ \A k \in ScaleFactors :
         /\ weighted_average(self, arg.others, Scaled(arg.weights, k)).tag = ret.tag
         /\ ret.tag = "Ok" =>
              SameCoord(into_coord(weighted_average(self, arg.others, Scaled(arg.weights, k)).value),
                        into_coord(ret.value))

\* Three colors with three different non-zero weights that do not sum to 1.
AverageWitness ==
  /\ op = "weighted_average" /\ ret.tag = "Ok"
  /\ Len(arg.others) = 2
  /\ arg.others[1] # self /\ arg.others[2] # arg.others[1]
  /\ arg.weights = <<I(2), F(5, -1), I(-1)>>
  /\ ~SameCoord(into_coord(ret.value), into_coord(self))


(***************************************************************************)
(* Strings are sequences of characters.  Hex codes and the 8-bit channels  *)
(* of RGBColor.                                                            *)
(***************************************************************************)
UpperHex == <<"0", "1", "2", "3", "4", "5", "6", "7", "8", "9", "A", "B", "C", "D", "E", "F">>
LowerHex == <<"0", "1", "2", "3", "4", "5", "6", "7", "8", "9", "a", "b", "c", "d", "e", "f">>

\* "0123456789ABCDEFabcdef".contains(c)
is_hex_char(c) == \E v \in 1..16 : c = UpperHex[v] \/ c = LowerHex[v]

\* The value of one hex digit, as u8::from_str_radix(_, 16) reads it.
hex_digit(c) == (CHOOSE v \in 1..16 : c = UpperHex[v] \/ c = LowerHex[v]) - 1

\* u8::from_str_radix of two hex digits.
from_str_radix16(c1, c2) == 16 * hex_digit(c1) + hex_digit(c2)

\* From<(u8, u8, u8)> for RGBColor.
rgb_from_u8(r, g, b) ==
  RGBColor(FDiv(I(r), I(255)), FDiv(I(g), I(255)), FDiv(I(b), I(255)))

\* `as u8` of an f64: saturating, NaN is 0.
as_u8(x) ==
  IF IsNaN(x) THEN 0
  ELSE IF FLe(x, Zero) THEN 0
  ELSE IF FGe(x, I(255)) THEN 255
  ELSE ToInt(trunc(x))

\* int_r, int_g and int_b are the same code on the three fields.
int_channel(x) ==
  IF FLt(x, Zero) THEN 0
  ELSE IF FGt(x, I(1)) THEN 255
  ELSE as_u8(round(FMul(x, I(255))))

int_r(c) == int_channel(c.r)
int_g(c) == int_channel(c.g)
int_b(c) == int_channel(c.b)

\* {:02X}
format_02X(n) == <<UpperHex[(n \div 16) + 1], UpperHex[(n % 16) + 1]>>

\* format!("#{:02X}{:02X}{:02X}", r, g, b)
format_rgb(r, g, b) == <<"#">> \o format_02X(r) \o format_02X(g) \o format_02X(b)

\* ToString for RGBColor.
to_string(c) == format_rgb(int_r(c), int_g(c), int_b(c))

\* The branches of from_hex_code once a leading '#' is removed, up to the
\* bytes rgb[0], rgb[1], rgb[2].
from_hex_chars(chars) ==
  IF Len(chars) # 3 /\ Len(chars) # 6 THEN Err("InvalidHexSyntax")
  ELSE IF ~(\A i \in 1..Len(chars) : is_hex_char(chars[i])) THEN Err("InvalidHexSyntax")
  ELSE IF Len(chars) = 6
    THEN Ok(<<from_str_radix16(chars[1], chars[2]),
              from_str_radix16(chars[3], chars[4]),
              from_str_radix16(chars[5], chars[6])>>)
    ELSE Ok(<<from_str_radix16(chars[1], chars[1]),
              from_str_radix16(chars[2], chars[2]),
              from_str_radix16(chars[3], chars[3])>>)

\* RGBColor::from_hex_code up to the bytes: chars[0] of an empty string is
\* out of bounds.
from_hex_bytes(hex) ==
  IF Len(hex) = 0 THEN Panic("index out of bounds: the len is 0 but the index is 0")
  ELSE IF hex[1] = "#" THEN from_hex_chars(Tail(hex))
  ELSE from_hex_chars(hex)

\* Ok(RGBColor::from((rgb[0], rgb[1], rgb[2])))
from_hex_result(bytes) ==
  IF bytes.tag = "Ok" THEN Ok(rgb_from_u8(bytes.value[1], bytes.value[2], bytes.value[3]))
  ELSE bytes

\* RGBColor::from_hex_code.
from_hex_code(hex) == from_hex_result(from_hex_bytes(hex))


(***************************************************************************)
(* ColorPoint::gradient and ColorPoint::gradient_scale.                    *)
(***************************************************************************)
\* The weights of the two points exchanged.
coord_weighted_midpoint_swapped(c, other, weight) ==
  Coord(FAdd(FMul(other.x, weight), FMul(FSub(I(1), weight), c.x)),
        FAdd(FMul(other.y, weight), FMul(FSub(I(1), weight), c.y)),
        FAdd(FMul(other.z, weight), FMul(FSub(I(1), weight), c.z)))

\* Coord::weighted_midpoint.
coord_weighted_midpoint(c, other, weight) ==
  Coord(FAdd(FMul(c.x, weight), FMul(FSub(I(1), weight), other.x)),
        FAdd(FMul(c.y, weight), FMul(FSub(I(1), weight), other.y)),
        FAdd(FMul(c.z, weight), FMul(FSub(I(1), weight), other.z)))

\* ColorPoint::weighted_midpoint.
weighted_midpoint(c, other, weight) ==
  from_coord(c.space, coord_weighted_midpoint(into_coord(c), into_coord(other), weight))

\* ColorPoint::gradient: the boxed closure with what it captures, and the
\* line println! writes to standard output.
gradient(c, other) ==
  [space |-> c.space, c1 |-> into_coord(c), c2 |-> into_coord(other),
   stdout |-> << <<into_coord(c), into_coord(other)>> >>]

\* A call of the closure gradient returns.
gradient_call(grad, x) ==
  from_coord(grad.space, coord_weighted_midpoint(grad.c2, grad.c1, x))

RECURSIVE gradient_scale_loop(_, _, _, _, _)
\* for i in 0..n + 2, pushing to grad_scale.
gradient_scale_loop(c, other, n, i, grad_scale) ==
  IF i >= n + 2 THEN grad_scale
  ELSE gradient_scale_loop(c, other, n, i + 1,
         Append(grad_scale, weighted_midpoint(other, c, FDiv(I(i), I(n + 1)))))

\* ColorPoint::gradient_scale.
gradient_scale(c, other, n) == gradient_scale_loop(c, other, n, 0, << >>)

MaxScale == 5

\* The endpoints of the documented example, a color outside the RGB gamut,
\* and colors of two more types.
GradientColors ==
  { from_hex_code(<<"#", "1", "1", "4", "5", "7", "c">>).value,
    from_hex_code(<<"#", "7", "7", "4", "b", "d", "c">>).value,
    RGBColor(F(12, -1), F(-1, -1), Zero),
    CIELABColor(I(50), I(20), I(-30)),
    CIELABColor(I(80), I(-40), I(10)),
    HSVColor(I(350), F(6, -1), F(7, -1)),
    HSVColor(I(10), I(1), F(2, -1)) }

\* Arguments of the closure, 2/6 among them.
GradientInputs ==
  { Zero, I(1), FDiv(I(2), I(6)), F(25, -2), F(5, -1), F(75, -2), F(1, -1) }

GradientInit ==
  /\ op = "new"
  /\ self \in GradientColors
  /\ arg = << >>
  /\ ret = Zero

\* let grad = self.gradient(&other);
Gradient(other) ==
  /\ op = "new"
  /\ op' = "gradient"
  /\ arg' = [other |-> other]
  /\ ret' = [grad |-> gradient(self, other)]
  /\ UNCHANGED self

\* grad(x), any number of times.
GradientCall(x) ==
  /\ op \in {"gradient", "grad"}
  /\ op' = "grad"
  /\ ret' = [grad |-> ret.grad, x |-> x, value |-> gradient_call(ret.grad, x)]
  /\ UNCHANGED <<self, arg>>

\* self.gradient_scale(&other, n)
GradientScale(other, n) ==
  /\ op = "new"
  /\ op' = "gradient_scale"
  /\ arg' = [other |-> other, n |-> n]
  /\ ret' = gradient_scale(self, other, n)
  /\ UNCHANGED self

GradientNext ==
  \/ \E other \in {c \in GradientColors : c.space = self.space} : Gradient(other)
  \/ \E x \in GradientInputs : GradientCall(x)
  \/ \E other \in {c \in GradientColors : c.space = self.space} :
       \E n \in 0..MaxScale : GradientScale(other, n)

SpecGradient == GradientInit /\ [][GradientNext]_vars

GradientTol(space) ==
  CASE space = "RGB"    -> F(5, -3)
    [] space = "HSV"    -> I(1)
    [] space = "CIELAB" -> F(5, -1)

\* a + t * (b - a), component-wise.
Lerp(a, b, t) ==
  Coord(FAdd(a.x, FMul(t, FSub(b.x, a.x))),
        FAdd(a.y, FMul(t, FSub(b.y, a.y))),
        FAdd(a.z, FMul(t, FSub(b.z, a.z))))

NearCoord(p, q, tol) ==
  Close(p.x, q.x, tol) /\ Close(p.y, q.y, tol) /\ Close(p.z, q.z, tol)

\* C11: the function gradient returns gives self at 0 and other at 1
\* exactly, and a + t * (b - a) in between (from #11457c to #774bdc it prints
\* #33479C at 2/6); gradient_scale(other, n) gives n + 2 colors, self first
\* and other last, the i-th at a + (i / (n + 1)) * (b - a).
GradientInterpolates ==
  /\ op = "grad" =>
       /\ ret.x = Zero => ret.value = self
       /\ ret.x = I(1) => ret.value = arg.other
       /\ ret.value.space = self.space
       /\ NearCoord(into_coord(ret.value),
                    Lerp(into_coord(self), into_coord(arg.other), ret.x),
                    GradientTol(self.space))
       /\ ( /\ self = from_hex_code(<<"#", "1", "1", "4", "5", "7", "c">>).value
            /\ arg.other = from_hex_code(<<"#", "7", "7", "4", "b", "d", "c">>).value
            /\ ret.x = FDiv(I(2), I(6)) )
          => to_string(ret.value) = <<"#", "3", "3", "4", "7", "9", "C">>
  /\ op = "gradient_scale" =>
       /\ Len(ret) = arg.n + 2
       /\ ret[1] = self
       /\ ret[Len(ret)] = arg.other
       /\ \A i \in 1..Len(ret) :
            NearCoord(into_coord(ret[i]),
                      Lerp(into_coord(self), into_coord(arg.other),
                           FDiv(I(i - 1), I(arg.n + 1))),
                      GradientTol(self.space))

\* The documented example, at 2/6.
GradientWitness ==
  /\ op = "grad"
  /\ self = from_hex_code(<<"#", "1", "1", "4", "5", "7", "c">>).value
  /\ arg.other = from_hex_code(<<"#", "7", "7", "4", "b", "d", "c">>).value
  /\ ret.x = FDiv(I(2), I(6))
  /\ to_string(ret.value) = <<"#", "3", "3", "4", "7", "9", "C">>


\* C17 as stated, for gradient: the call writes nothing to standard output,
\* and neither do the calls of the function it returns.
GradientWritesNothing ==
  op \in {"gradient", "grad"} => ret.grad.stdout = << >>

\* What gradient writes: one line, the Debug form of the two embeddings.
GradientPrintsEndpoints ==
  op \in {"gradient", "grad"} =>
    ret.grad.stdout = << <<into_coord(self), into_coord(arg.other)>> >>

(***************************************************************************)
(* IEEE 754 binary64, exactly, for the arithmetic on 8-bit channels, where *)
(* one unit in the last place decides which way a half rounds.  A natural  *)
(* number is the sequence of its digits in base 2^15, lowest first; a      *)
(* non-negative f64 is [m, e] with value m * 2^e and m of 53 bits (or      *)
(* empty, for 0.0).                                                        *)
(***************************************************************************)
NatBase == 2^15

RECURSIVE NatOf(_)
NatOf(n) == IF n = 0 THEN << >> ELSE <<n % NatBase>> \o NatOf(n \div NatBase)

RECURSIVE NatTrim(_)
NatTrim(a) ==
  IF a = << >> \/ a[Len(a)] # 0 THEN a ELSE NatTrim(SubSeq(a, 1, Len(a) - 1))

RECURSIVE NatToInt(_)
NatToInt(a) == IF a = << >> THEN 0 ELSE a[1] + NatBase * NatToInt(Tail(a))

RECURSIVE NatMulFrom(_, _, _, _)
NatMulFrom(a, k, i, carry) ==
  IF i > Len(a) THEN NatOf(carry)
  ELSE <<(a[i] * k + carry) % NatBase>>
       \o NatMulFrom(a, k, i + 1, (a[i] * k + carry) \div NatBase)

\* a * k, for k < 2^15.
NatMul(a, k) == NatTrim(NatMulFrom(a, k, 1, 0))

NatLimb(a, i) == IF i <= Len(a) THEN a[i] ELSE 0

RECURSIVE NatAddFrom(_, _, _, _)
NatAddFrom(a, b, i, carry) ==
  IF i > Len(a) /\ i > Len(b) THEN NatOf(carry)
  ELSE <<(NatLimb(a, i) + NatLimb(b, i) + carry) % NatBase>>
       \o NatAddFrom(a, b, i + 1, (NatLimb(a, i) + NatLimb(b, i) + carry) \div NatBase)

NatAdd(a, b) == NatAddFrom(a, b, 1, 0)

RECURSIVE NatDivFrom(_, _, _, _, _)
NatDivFrom(a, d, i, rem, acc) ==
  IF i = 0 THEN <<NatTrim(acc), rem>>
  ELSE NatDivFrom(a, d, i - 1, (rem * NatBase + a[i]) % d,
                  <<(rem * NatBase + a[i]) \div d>> \o acc)

\* <<a \div d, a % d>>, for d <= 2^15.
NatDivMod(a, d) == NatDivFrom(a, d, Len(a), 0, << >>)

\* The number of bits of a.
NatBits(a) ==
  IF a = << >> THEN 0
  ELSE 15 * (Len(a) - 1)
       + (CHOOSE k \in 1..15 : 2^(k - 1) <= a[Len(a)] /\ a[Len(a)] < 2^k)

\* a * 2^s.
NatShl(a, s) == NatMul([i \in 1..(s \div 15) |-> 0] \o a, 2^(s % 15))

NatShrOf(a, k, dm) == <<dm[1], dm[2] # 0 \/ \E i \in 1..k : a[i] # 0>>

\* <<a \div 2^s, whether a bit was shifted out>>.
NatShr(a, s) ==
  IF s \div 15 >= Len(a) THEN <<<< >>, a # << >>>>
  ELSE NatShrOf(a, s \div 15, NatDivMod(SubSeq(a, (s \div 15) + 1, Len(a)), 2^(s % 15)))

B64(m, e) == [m |-> m, e |-> e]

B64Carry(m, e) == IF NatBits(m) = 54 THEN B64(NatDivMod(m, 2)[1], e + 1) ELSE B64(m, e)

\* Round to nearest, ties to even: half is <<m, the bit after m>>, sticky
\* whether anything non-zero follows.
B64Nearest(half, sticky, e) ==
  IF half[2] = 1 /\ (sticky \/ half[1][1] % 2 = 1)
  THEN B64Carry(NatAdd(half[1], <<1>>), e)
  ELSE B64(half[1], e)

B64Shifted(sh, sticky, e) == B64Nearest(NatDivMod(sh[1], 2), sticky \/ sh[2], e)

B64Round53(n, bits, sticky, e) ==
  IF bits = 0 THEN B64(<< >>, 0)
  ELSE IF bits <= 53 THEN B64(NatShl(n, 53 - bits), e - (53 - bits))
  ELSE B64Shifted(NatShr(n, bits - 54), sticky, e + (bits - 53))

\* The f64 nearest to n * 2^e (plus a non-zero fraction below, if sticky).
B64Of(n, sticky, e) == B64Round53(n, NatBits(n), sticky, e)

B64Quotient(qr, e) == B64Of(qr[1], qr[2] # 0, e)

\* x / d, for an integer 0 < d <= 2^15.
B64Div(x, d) ==
  IF x.m = << >> THEN x ELSE B64Quotient(NatDivMod(<<0, 0>> \o x.m, d), x.e - 30)

\* x * k, for an integer 0 <= k < 2^15.
B64Mul(x, k) == B64Of(NatMul(x.m, k), FALSE, x.e)

\* x + y
B64Add(x, y) ==
  IF x.m = << >> THEN y
  ELSE IF y.m = << >> THEN x
  ELSE IF x.e >= y.e THEN B64Of(NatAdd(NatShl(x.m, x.e - y.e), y.m), FALSE, y.e)
  ELSE B64Of(NatAdd(NatShl(y.m, y.e - x.e), x.m), FALSE, x.e)

\* x > 1.0
B64GtOne(x) ==
  /\ x.m # << >>
  /\ \/ NatBits(x.m) + x.e > 1
     \/ NatBits(x.m) + x.e = 1 /\ x.m # NatShl(<<1>>, 52)

\* f64::round, a half away from zero, as an integer (x < 2^30).
B64RoundInt(x) ==
  IF x.m = << >> THEN 0
  ELSE IF x.e >= 0 THEN NatToInt(NatShl(x.m, x.e))
  ELSE (NatToInt(NatShr(x.m, (-x.e) - 1)[1]) + 1) \div 2


(***************************************************************************)
(* Mix::mix, for the types with a Coord embedding, and on colors made from *)
(* 8-bit channels with the channels' arithmetic exact.                     *)
(***************************************************************************)
\* Coord::midpoint.
coord_midpoint(c, other) ==
  Coord(FDiv(FAdd(c.x, other.x), I(2)),
        FDiv(FAdd(c.y, other.y), I(2)),
        FDiv(FAdd(c.z, other.z), I(2)))

\* impl Mix for T.
mix(c, other) == from_coord(c.space, coord_midpoint(into_coord(c), into_coord(other)))

\* (u8, u8, u8)
U8Color(r, g, b) == [space |-> "u8", r |-> r, g |-> g, b |-> b]

\* r as f64 / 255.0, of From<(u8, u8, u8)> for RGBColor.
channel_from_u8(n) == B64Div(B64Of(NatOf(n), FALSE, 0), 255)

\* (x + y) / 2.0, of Coord::midpoint.
channel_midpoint(x, y) == B64Div(B64Add(x, y), 2)

\* int_r, int_g, int_b on a channel that is not negative.
channel_to_u8(x) == IF B64GtOne(x) THEN 255 ELSE B64RoundInt(B64Mul(x, 255))

\* One channel of RGBColor::from(c1).mix(RGBColor::from(c2)), as int_r reads it.
mix_channel(p, q) == channel_to_u8(channel_midpoint(channel_from_u8(p), channel_from_u8(q)))

\* RGBColor::from(c1).mix(RGBColor::from(c2)): its 8-bit channels and its
\* to_string().
mix_u8_of(r, g, b) ==
  [rgb |-> U8Color(r, g, b), string |-> format_rgb(r, g, b)]

mix_u8(c1, c2) ==
  mix_u8_of(mix_channel(c1.r, c2.r), mix_channel(c1.g, c2.g), mix_channel(c1.b, c2.b))

\* Colors of three embeddable types, and 8-bit colors: every red channel with
\* the first color of test_mix_rgb, and the other two colors of that test.
MixColors ==
  { RGBColor(F(2, -1), F(5, -1), F(8, -1)),
    RGBColor(F(12, -1), F(-1, -1), Zero),
    CIELABColor(I(50), I(20), I(-30)),
    CIELABColor(I(80), I(-40), I(10)),
    HSVColor(I(350), F(6, -1), F(7, -1)),
    HSVColor(I(10), I(1), F(2, -1)) }

MixBytes ==
  { U8Color(p, 0, 255) : p \in 0..255 }
    \cup { U8Color(255, 0, 1), U8Color(127, 7, 19), U8Color(32, 200, 64), U8Color(1, 1, 1) }

MixInit ==
  /\ op = "new"
  /\ (self \in MixColors \/ self \in MixBytes)
  /\ arg = << >>
  /\ ret = Zero

\* self.mix(other)
Mix(other) ==
  /\ op = "new"
  /\ self.space # "u8"
  /\ op' = "mix"
  /\ arg' = other
  /\ ret' = mix(self, other)
  /\ UNCHANGED self

\* RGBColor::from(self).mix(RGBColor::from(other)), read back as 8-bit
\* channels and as a string.
MixU8(other) ==
  /\ op = "new"
  /\ self.space = "u8"
  /\ op' = "mix_u8"
  /\ arg' = other
  /\ ret' = mix_u8(self, other)
  /\ UNCHANGED self

MixNext ==
  \/ \E other \in {c \in MixColors : c.space = self.space} : Mix(other)
  \/ \E other \in { U8Color(255, 0, 1), U8Color(127, 7, 19), U8Color(32, 200, 64),
                    U8Color(1, 1, 1), U8Color(0, 0, 255) } : MixU8(other)

SpecMix == MixInit /\ [][MixNext]_vars

\* (p + q) / 2 with a half rounded away from zero.
HalfUp(p, q) == (p + q + 1) \div 2

\* C12: mix is the component-wise mean of the embeddings, and for colors made
\* from 8-bit channels p and q the 8-bit channel of the mix is (p + q) / 2
\* with a half rounded away from zero, so that (0,0,255) mixed with (255,0,1)
\* prints as #800080.
MixIsRoundedMean ==
  /\ op = "mix" =>
       /\ ret.space = self.space
       /\ NearCoord(into_coord(ret),
                    Lerp(into_coord(self), into_coord(arg), F(5, -1)),
                    GradientTol(self.space))
  /\ op = "mix_u8" =>
       /\ ret.rgb = U8Color(HalfUp(self.r, arg.r), HalfUp(self.g, arg.g), HalfUp(self.b, arg.b))
       /\ (self = U8Color(0, 0, 255) /\ arg = U8Color(255, 0, 1))
            => ret.string = <<"#", "8", "0", "0", "0", "8", "0">>

\* What does hold: the mean of the embeddings, the three results of
\* test_mix_rgb, and channels that are the mean rounded one way or the other.
MixIsMean ==
  /\ op = "mix" =>
       NearCoord(into_coord(ret), Lerp(into_coord(self), into_coord(arg), F(5, -1)),
                 GradientTol(self.space))
  /\ op = "mix_u8" =>
       /\ ret.rgb.r \in {(self.r + arg.r) \div 2, HalfUp(self.r, arg.r)}
       /\ ret.rgb.g \in {(self.g + arg.g) \div 2, HalfUp(self.g, arg.g)}
       /\ ret.rgb.b \in {(self.b + arg.b) \div 2, HalfUp(self.b, arg.b)}
       /\ (self = U8Color(0, 0, 255) /\ arg = U8Color(255, 0, 1))
            => ret.string = <<"#", "8", "0", "0", "0", "8", "0">>
       /\ (self = U8Color(0, 0, 255) /\ arg = U8Color(127, 7, 19))
            => ret.string = <<"#", "4", "0", "0", "4", "8", "9">>
       /\ (self = U8Color(255, 0, 1) /\ arg = U8Color(127, 7, 19))
            => ret.string = <<"#", "B", "F", "0", "4", "0", "A">>


(***************************************************************************)
(* Hex codes parsed and printed, the channels' arithmetic exact.           *)
(***************************************************************************)
\* From<(u8, u8, u8)> for RGBColor.
rgb_exact_from_u8(r, g, b) ==
  RGBColor(channel_from_u8(r), channel_from_u8(g), channel_from_u8(b))

\* Ok(RGBColor::from((rgb[0], rgb[1], rgb[2])))
from_hex_result_exact(bytes) ==
  IF bytes.tag = "Ok"
  THEN Ok(rgb_exact_from_u8(bytes.value[1], bytes.value[2], bytes.value[3]))
  ELSE bytes

\* RGBColor::from_hex_code.
from_hex_code_exact(hex) == from_hex_result_exact(from_hex_bytes(hex))

\* ToString for RGBColor, with a first channel that reads one less.
to_string_exact_low(c) ==
  format_rgb((channel_to_u8(c.r) + 255) % 256, channel_to_u8(c.g), channel_to_u8(c.b))

\* ToString for RGBColor.
to_string_exact(c) == format_rgb(channel_to_u8(c.r), channel_to_u8(c.g), channel_to_u8(c.b))

\* Every byte in every position, in upper case.
UpperCodes == { format_rgb(n, (7 * n) % 256, 255 - n) : n \in 0..255 }

\* Codes of the other accepted forms, and strings that are no codes: empty,
\* of a wrong length, with a character that is no hex digit, with two '#',
\* with '#' at the end.
OtherCodes ==
  { <<"#", "f", "f", "0", "0", "f", "f">>, <<"f", "0", "f">>, <<"#", "a", "B", "c">>,
    <<"1", "1", "4", "5", "7", "c">>, <<"#", "0", "0", "0">>,
    << >>, <<"#">>, <<"#", "a", "f", "a", "f", "a">>, <<"#", "g", "a", "f", "d", "2", "2">>,
    <<"f", "f">>, <<"1", "2", "3", "4">>, <<"#", "1", "2", "3", "4", "5", "6", "7">>,
    <<"#", "#", "f", "f", "f">>, <<"#", "#", "1", "2", "3", "4", "5">>,
    <<"f", "f", "f", "#">>, <<"+", "f", "f">>, <<"#", "f", " ", "f">>, <<"x", "y", "z">>,
    <<"#", "-", "1", "f", "f", "f", "f">>, <<"0", "x", "f", "f", "f", "f">> }

HexInit ==
  /\ op = "new"
  /\ (self \in UpperCodes \/ self \in OtherCodes)
  /\ arg = << >>
  /\ ret = Zero

\* RGBColor::from_hex_code(self)
FromHexCode ==
  /\ op = "new"
  /\ op' = "from_hex_code"
  /\ ret' = from_hex_code_exact(self)
  /\ UNCHANGED <<self, arg>>

\* to_string() of the color from_hex_code returned.
PrintHex ==
  /\ op = "from_hex_code"
  /\ ret.tag = "Ok"
  /\ op' = "to_string"
  /\ arg' = ret.value
  /\ ret' = to_string_exact(ret.value)
  /\ UNCHANGED self

HexNext == FromHexCode \/ PrintHex

SpecHex == HexInit /\ [][HexNext]_vars

\* '#' and six upper-case hex digits.
IsUpperCode(h) ==
  /\ Len(h) = 7
  /\ h[1] = "#"
  /\ \A i \in 2..7 : \E v \in 1..16 : h[i] = UpperHex[v]

\* C13: for a string of '#' and six upper-case hex digits from_hex_code
\* succeeds and to_string() of its result is the string again; a channel made
\* from the 8-bit value n reads back as n.
HexRoundTrip ==
  /\ (op = "from_hex_code" /\ IsUpperCode(self)) => ret.tag = "Ok"
  /\ (op = "to_string" /\ IsUpperCode(self)) =>
       /\ ret = self
       /\ channel_to_u8(arg.r) = from_str_radix16(self[2], self[3])
       /\ channel_to_u8(arg.g) = from_str_radix16(self[4], self[5])
       /\ channel_to_u8(arg.b) = from_str_radix16(self[6], self[7])

\* A code whose channels are not representable fractions, printed again.
HexRoundTripWitness ==
  /\ op = "to_string"
  /\ self = <<"#", "3", "3", "6", "5", "C", "C">>
  /\ ret = self

\* The hex digits of a string with at most one leading '#' set aside.
HexDigitsOf(h) == IF Len(h) > 0 /\ h[1] = "#" THEN Tail(h) ELSE h

\* Exactly 3 or 6 hex digits after an optional '#'.
WellFormedHex(h) ==
  /\ Len(HexDigitsOf(h)) \in {3, 6}
  /\ \A i \in 1..Len(HexDigitsOf(h)) : is_hex_char(HexDigitsOf(h)[i])

\* The byte a well-formed code gives channel k (1, 2 or 3), a digit of a
\* 3-digit code counting twice.
HexByte(d, k) ==
  IF Len(d) = 3 THEN 17 * hex_digit(d[k])
  ELSE 16 * hex_digit(d[2 * k - 1]) + hex_digit(d[2 * k])

\* C20: from_hex_code returns Ok, with the color the digits stand for, for
\* exactly 3 or 6 hex digits after an optional single '#', and
\* Err(InvalidHexSyntax) for every other string, the empty one included; it
\* never panics.
HexOkIffWellFormed ==
  op = "from_hex_code" =>
    /\ ret.tag # "panic"
    /\ WellFormedHex(self) =>
         ret = Ok(rgb_exact_from_u8(HexByte(HexDigitsOf(self), 1),
                                    HexByte(HexDigitsOf(self), 2),
                                    HexByte(HexDigitsOf(self), 3)))
    /\ ~WellFormedHex(self) => ret = Err("InvalidHexSyntax")

\* What does hold: the same for every string that is not empty.
HexOkIffWellFormedNonEmpty ==
  (op = "from_hex_code" /\ self # << >>) =>
    /\ WellFormedHex(self) =>
         ret = Ok(rgb_exact_from_u8(HexByte(HexDigitsOf(self), 1),
                                    HexByte(HexDigitsOf(self), 2),
                                    HexByte(HexDigitsOf(self), 3)))
    /\ ~WellFormedHex(self) => ret = Err("InvalidHexSyntax")


(***************************************************************************)
(* Illuminant::white_point.  self is the illuminant, ret the white point   *)
(* it returns.                                                             *)
(***************************************************************************)
\* Custom triplets with Y != 0, negative luminance included.
CustomTriples ==
  { <<x, y, z>> : x \in {I(1), I(3), F(25, -2), F(9642, -4)},
                  y \in {I(1), I(2), F(5, -1), I(100), I(-4)},
                  z \in {I(1), F(8, -1), I(7), F(8252, -4)} }

WhiteIlluminants == {D50, D55, D65, D75} \cup { Custom(t) : t \in CustomTriples }

WhiteInit ==
  /\ op = "new"
  /\ self \in WhiteIlluminants
  /\ arg = << >>
  /\ ret = << >>

\* self.white_point()
WhitePoint ==
  /\ op = "new"
  /\ op' = "white_point"
  /\ ret' = white_point(self)
  /\ UNCHANGED <<self, arg>>

WhiteNext == WhitePoint

SpecWhite == WhiteInit /\ [][WhiteNext]_vars

\* Positive scale factors, and the triplets a factor scales without
\* rounding: t and k * t are then two triplets that differ by the factor k.
WhiteScales == { I(10), F(1, -2), I(2), I(3), F(5, -1) }

ExactProduct(x, k) ==
  Only({ p[2] >= x[2] + k[2] /\ p[1] * 10^(p[2] - x[2] - k[2]) = x[1] * k[1] :
           p \in {FMul(x, k)} })

ExactlyScaled(t, k) == \A i \in 1..3 : ExactProduct(t[i], k)

as_usize(x) == IF IsNaN(x) \/ FLe(x, Zero) THEN 0 ELSE ToInt(trunc(x))

\* let clamped = if x < 0. { 0. } else if x > 1. { 1. } else { x };
clamped_of(x) == IF FLt(x, Zero) THEN Zero ELSE IF FGt(x, I(1)) THEN I(1) ELSE x

\* Coord{x: arr[0], y: arr[1], z: arr[2]}
coord_of_arr(arr) == Coord(arr[1], arr[2], arr[3])

\* The two branches on ind1 == ind2; self.vals.get(ind).unwrap() panics
\* where the table has no entry ind.
listed_between(vals, T, clamped, ind1, ind2) ==
  IF ind1 >= Len(vals) \/ ind2 >= Len(vals)
  THEN Panic("called Option::unwrap() on a None value")
  ELSE IF ind1 = ind2
  THEN convert(from_coord("RGB", coord_of_arr(vals[ind1 + 1])), T)
  ELSE convert(from_coord("RGB", coord_weighted_midpoint(coord_of_arr(vals[ind2 + 1]),
                                                         coord_of_arr(vals[ind1 + 1]),
                                                         clamped)), T)

\* float_ind, ind1 and ind2.
listed_indexed(vals, T, clamped, float_ind) ==
  listed_between(vals, T, clamped, as_usize(floor(float_ind)), as_usize(ceil(float_ind)))

listed_clamped(vals, T, clamped) ==
  listed_indexed(vals, T, clamped, FMul(clamped, FSub(I(Len(vals)), I(1))))

\* <ListedColorMap as ColorMap<T>>::transform_single.
transform_single(vals, T, x) == listed_clamped(vals, T, clamped_of(x))

\* Anchor tables of zero to five entries.
ListedMaps ==
  { << >>,
    << <<F(2, -1), F(4, -1), F(6, -1)>> >>,
    << <<Zero, Zero, Zero>>, <<I(1), I(1), I(1)>> >>,
    << <<Zero, Zero, Zero>>, <<I(1), I(1), I(1)>>, <<Zero, Zero, Zero>> >>,
    << <<F(2, -1), Zero, F(4, -1)>>, <<I(1), F(5, -1), Zero>>, <<Zero, I(1), F(8, -1)>>,
       <<F(6, -1), F(6, -1), F(2, -1)>> >>,
    << <<F(267, -3), F(5, -3), F(329, -3)>>, <<F(254, -3), F(265, -3), F(53, -2)>>,
       <<F(164, -3), F(471, -3), F(558, -3)>>, <<F(135, -3), F(659, -3), F(518, -3)>>,
       <<F(993, -3), F(906, -3), F(144, -3)>> >> }

ListedInputs ==
  { F(-2, -1), Zero, F(1, -1), F(25, -2), F(3, -1), F(5, -1), F(6, -1), F(75, -2),
    F(9, -1), I(1), I(100) }

ListedTypes == { "RGB", "CIELAB" }

ListedInit ==
  /\ op = "new"
  /\ self \in ListedMaps
  /\ arg = << >>
  /\ ret = << >>

\* self.transform_single(x), as a T.
TransformSingle(T, x) ==
  /\ op = "new"
  /\ op' = "transform_single"
  /\ arg' = [T |-> T, x |-> x]
  /\ ret' = transform_single(self, T, x)
  /\ UNCHANGED self

ListedNext == \E T \in ListedTypes, x \in ListedInputs : TransformSingle(T, x)

SpecListed == ListedInit /\ [][ListedNext]_vars

\* vals[i] + (f - i) * (vals[i + 1] - vals[i]), and vals[i] itself where
\* f = i (the last anchor has no successor).
ListedAt(vals, f, i) ==
  IF FEq(f, I(i)) THEN coord_of_arr(vals[i + 1])
  ELSE Lerp(coord_of_arr(vals[i + 1]), coord_of_arr(vals[i + 2]), FSub(f, I(i)))

ListedExpected(vals, T, f) == convert(from_coord("RGB", ListedAt(vals, f, as_usize(floor(f)))), T)

\* C19 as stated: over a table of N >= 1 anchors the result is the color at
\* vals[i] + (f - i) * (vals[i + 1] - vals[i]) for f = clamped x * (N - 1)
\* and i = floor(f).
ListedIsPiecewiseLinear ==
  (op = "transform_single" /\ Len(self) >= 1) =>
    /\ ret.space = arg.T
    /\ SameColor(ret, ListedExpected(self, arg.T,
                                     FMul(clamped_of(arg.x), FSub(I(Len(self)), I(1)))))

\* What the code computes between two anchors: the weight of the upper one
\* is the clamped x itself, not the fraction f - i.
ListedWeighsByInput ==
  (op = "transform_single" /\ Len(self) >= 1) =>
    /\ ret.space = arg.T
    /\ Only({ SameColor(ret,
                IF FEq(f, floor(f)) THEN ListedExpected(self, arg.T, f)
                ELSE convert(from_coord("RGB",
                       Lerp(coord_of_arr(self[as_usize(floor(f)) + 1]),
                            coord_of_arr(self[as_usize(floor(f)) + 2]),
                            clamped_of(arg.x))), arg.T)) :
              f \in {FMul(clamped_of(arg.x), FSub(I(Len(self)), I(1)))} })

\* With at most two anchors f is the clamped x and the two agree.
ListedTwoAnchors ==
  (op = "transform_single" /\ Len(self) \in {1, 2}) =>
    SameColor(ret, ListedExpected(self, arg.T,
                                  FMul(clamped_of(arg.x), FSub(I(Len(self)), I(1)))))

(***************************************************************************)
(* Conversions between the representations.  self is the value an          *)
(* operation is called on, arg its arguments, ret what it returns.         *)
(***************************************************************************)
Representations ==
  { "XYZ", "RGB", "AdobeRGB", "ROMMRGB", "CIELAB", "CIELCH", "CIELUV", "CIELCHuv",
    "HSV", "HSL" }

\* Hub values: black, the D50 white, colors inside every gamut, and colors
\* with linear components below 0 and above 1 in each RGB-like space.
HubInputs ==
  { XYZColor(Zero, Zero, Zero, D50),
    XYZColor(Zero, Zero, Zero, D65),
    XYZColor(F(9642, -4), I(1), F(8252, -4), D50),
    XYZColor(F(4, -1), F(2, -1), F(5, -1), D75),
    XYZColor(F(3, -1), F(53, -2), F(65, -2), D50),
    XYZColor(F(4, -1), F(5, -1), F(6, -1), D50),
    XYZColor(F(9, -1), F(3, -1), Zero, D65),
    XYZColor(F(1, -1), F(5, -1), F(15, -1), D50),
    XYZColor(F(-1, -1), F(2, -1), F(1, -1), D50),
    XYZColor(F(12, -1), F(11, -1), F(2, -1), D65),
    XYZColor(F(1, -1), Zero, F(1, -1), D50),
    XYZColor(F(2, -1), F(8, -1), F(-1, -1), D65) }

\* Values of the other representations: black in each, colors within range,
\* and finite triples outside it.
ColorInputs ==
  { RGBColor(Zero, Zero, Zero), RGBColor(F(2, -1), F(5, -1), F(8, -1)),
    RGBColor(F(-1, -1), F(5, -1), F(12, -1)),
    AdobeRGBColor(Zero, Zero, Zero), AdobeRGBColor(F(2, -1), F(6, -1), F(9, -1)),
    AdobeRGBColor(F(11, -1), F(6, -1), F(8, -1)), AdobeRGBColor(F(-1, -1), F(5, -1), F(8, -1)),
    ROMMRGBColor(Zero, Zero, Zero), ROMMRGBColor(F(6, -1), F(3, -1), F(8, -1)),
    ROMMRGBColor(F(-1, -1), F(5, -1), F(12, -1)),
    CIELABColor(Zero, Zero, Zero), CIELABColor(I(50), I(20), I(-30)),
    CIELABColor(I(120), I(-150), I(90)),
    CIELCHColor(Zero, Zero, Zero), CIELCHColor(I(60), I(30), I(100)),
    CIELUVColor(Zero, Zero, Zero), CIELUVColor(I(50), I(20), I(30)),
    CIELUVColor(Zero, I(10), I(-10)),
    CIELCHuvColor(Zero, Zero, Zero), CIELCHuvColor(I(60), I(30), I(100)),
    HSVColor(Zero, Zero, Zero), HSVColor(I(200), F(5, -1), F(8, -1)),
    HSLColor(Zero, Zero, Zero), HSLColor(I(120), F(5, -1), F(5, -1)),
    HSLColor(I(400), F(-5, -1), I(2)) }

ConvertIlluminants == { D50, D65 }

ConvertInit ==
  /\ op = "new"
  /\ (self \in HubInputs \/ self \in ColorInputs)
  /\ arg = << >>
  /\ ret = << >>

\* T::from_xyz(self)
FromXyz(T) ==
  /\ op = "new"
  /\ self.space = "XYZ"
  /\ op' = "from_xyz"
  /\ arg' = [T |-> T]
  /\ ret' = from_xyz(T, self)
  /\ UNCHANGED self

\* self.to_xyz(illuminant)
ToXyz(illuminant) ==
  /\ op = "new"
  /\ self.space # "XYZ"
  /\ op' = "to_xyz"
  /\ arg' = [illuminant |-> illuminant]
  /\ ret' = to_xyz(self, illuminant)
  /\ UNCHANGED self

\* self.convert::<T>()
Convert(T) ==
  /\ op = "new"
  /\ self.space # "XYZ"
  /\ op' = "convert"
  /\ arg' = [T |-> T]
  /\ ret' = convert(self, T)
  /\ UNCHANGED self

DerivedOps == { "hue", "lightness", "chroma", "saturation" }

\* self.hue(), self.lightness(), self.chroma() or self.saturation()
Derived(name) ==
  /\ op = "new"
  /\ self.space # "XYZ"
  /\ op' = name
  /\ ret' = derived(name, self)
  /\ UNCHANGED <<self, arg>>

ConvertNext ==
  \/ \E T \in Representations : FromXyz(T)
  \/ \E illuminant \in ConvertIlluminants : ToXyz(illuminant)
  \/ \E T \in Representations : Convert(T)
  \/ \E name \in DerivedOps : Derived(name)

SpecConvert == ConvertInit /\ [][ConvertNext]_vars

\* The linear components a hub value has in an RGB-like space: the product
\* of the space's matrix with the adapted value, before any transfer
\* function.
LinearOf(T, xyz) ==
  CASE T = "RGB"      -> MatVec(SRGB, XYZVec(color_adapt(xyz, D65)))
    [] T = "AdobeRGB" -> MatVec(ADOBE_RGB, XYZVec(color_adapt(xyz, D65)))
    [] T = "ROMMRGB"  -> MatVec(ROMM, XYZVec(color_adapt(xyz, D50)))

RGBLike == { "RGB", "AdobeRGB", "ROMMRGB" }

StoredOf(c) == <<c.r, c.g, c.b>>

\* A stored component is on the same side of [0, 1] as the linear one
\* (above 1: where the linear one exceeds 1 by more than a rounding error).
KeepsExcess(lin, stored) ==
  \A i \in 1..3 : /\ FLt(lin[i], Zero) => FLt(stored[i], Zero)
                  /\ FGt(lin[i], F(101, -2)) => FGt(stored[i], I(1))

\* A stored component is the encoding of 0 where the linear one is below 0
\* and of 1 where it is above 1, and lies between the two.
ClipsExcess(lin, stored, low, high) ==
  \A i \in 1..3 : /\ FLt(lin[i], Zero) => stored[i] = low
                  /\ FGt(lin[i], I(1)) => stored[i] = high
                  /\ FLe(low, stored[i]) /\ FLe(stored[i], high)

\* C14 as stated: from_xyz of every RGB-like representation keeps a
\* component below 0 below 0 and a component above 1 above 1.
NoConversionClamps ==
  (op = "from_xyz" /\ arg.T \in RGBLike) =>
    KeepsExcess(LinearOf(arg.T, self), StoredOf(ret))

HubTol == F(2, -2)

NearHub(a, b) ==
  /\ Close(a.x, b.x, HubTol) /\ Close(a.y, b.y, HubTol) /\ Close(a.z, b.z, HubTol)
  /\ a.illuminant = b.illuminant

\* C14: RGBColor::from_xyz keeps components below 0 and above 1 (and with
\* it the value of HSVColor, the largest component); CIELABColor and
\* CIELCHColor give back an out-of-gamut hub value when converted back;
\* AdobeRGBColor::from_xyz and ROMMRGBColor::from_xyz clip every linear
\* component into [0, 1] before they encode it.
OnlyWideGamutsClip ==
  op = "from_xyz" =>
    /\ arg.T = "RGB" => KeepsExcess(LinearOf("RGB", self), StoredOf(ret))
    /\ (arg.T = "HSV" /\ \E i \in 1..3 : FGt(LinearOf("RGB", self)[i], F(101, -2))) =>
         FGt(ret.v, I(1))
    /\ arg.T \in {"CIELAB", "CIELCH"} => NearHub(to_xyz(ret, self.illuminant), self)
    /\ arg.T = "AdobeRGB" => ClipsExcess(LinearOf("AdobeRGB", self), StoredOf(ret), Zero, I(1))
    /\ arg.T = "ROMMRGB" =>
         ClipsExcess(LinearOf("ROMMRGB", self), StoredOf(ret), F(3473, -6), I(1))

\* A hub value with Adobe RGB components above 1 and below 0 comes out as
\* 1 and 0 there.
ClipWitness ==
  /\ op = "from_xyz"
  /\ arg.T = "AdobeRGB"
  /\ FGt(LinearOf("AdobeRGB", self)[1], I(1))
  /\ FLt(LinearOf("AdobeRGB", self)[2], Zero)
  /\ ret.r = I(1)
  /\ ret.g = Zero

\* The three components of a value of any representation, the hub included.
ComponentsOf(c) ==
  IF c.space = "XYZ" THEN XYZVec(c)
  ELSE <<into_coord(c).x, into_coord(c).y, into_coord(c).z>>

FiniteColor(c) == \A i \in 1..3 : IsFinite(ComponentsOf(c)[i])

\* Black as a hub value, and the values of lightness 0 of the other
\* representations (value 0 for HSVColor, all components 0 for the RGB-like
\* ones).
ZeroLightness(c) ==
  CASE c.space = "XYZ" -> c.x = Zero /\ c.y = Zero /\ c.z = Zero
    [] c.space \in {"CIELAB", "CIELCH", "CIELUV", "CIELCHuv", "HSL"} -> c.l = Zero
    [] c.space = "HSV" -> c.v = Zero
    [] c.space \in RGBLike -> c.r = Zero /\ c.g = Zero /\ c.b = Zero

\* C15: converting black, or a value of lightness 0, into or out of any
\* representation yields finite components.
BlackStaysFinite ==
  (op \in {"from_xyz", "to_xyz", "convert"} /\ ZeroLightness(self)) => FiniteColor(ret)

\* C16: for a finite component triple (here: of lightness other than 0)
\* to_xyz and convert return finite components, and hue, lightness, chroma
\* and saturation return a finite number.
ToXyzFinite ==
  /\ (op \in {"to_xyz", "convert"} /\ FiniteColor(self) /\ ~ZeroLightness(self)) =>
       FiniteColor(ret)
  /\ (op \in DerivedOps /\ FiniteColor(self) /\ ~ZeroLightness(self)) => IsFinite(ret)

\* Within the representations whose to_xyz raises nothing to a fractional
\* power of a stored component, or raises only what it has shifted above 0,
\* the same holds.
ToXyzFiniteElsewhere ==
  (op \in {"to_xyz", "convert"} \cup DerivedOps /\ ~ZeroLightness(self)
     /\ self.space \notin {"AdobeRGB", "CIELUV", "CIELCHuv"}) =>
    (IF op \in DerivedOps THEN IsFinite(ret) ELSE FiniteColor(ret))

(***************************************************************************)
(* The cylindrical forms of sRGB.  self is an RGBColor within the gamut,   *)
(* ret its conversion to HSVColor or HSLColor, and after the second step   *)
(* the conversion of that value back to RGBColor.                          *)
(***************************************************************************)
CylLevels == { Zero, F(2, -1), F(5, -1), I(1) }

CylColors == { RGBColor(r, g, b) : r \in CylLevels, g \in CylLevels, b \in CylLevels }

CylTypes == { "HSV", "HSL" }

CylInit ==
  /\ op = "new"
  /\ self \in CylColors
  /\ arg = << >>
  /\ ret = << >>

\* self.convert::<T>() for T = HSVColor, HSLColor
CylConvert(T) ==
  /\ op = "new"
  /\ op' = "convert"
  /\ arg' = [T |-> T]
  /\ ret' = convert(self, T)
  /\ UNCHANGED self

\* the value returned, converted back: .convert::<RGBColor>()
CylBack ==
  /\ op = "convert"
  /\ op' = "back"
  /\ arg' = [T |-> arg.T, via |-> ret]
  /\ ret' = convert(ret, "RGB")
  /\ UNCHANGED self

CylNext ==
  \/ \E T \in CylTypes : CylConvert(T)
  \/ CylBack

SpecCyl == CylInit /\ [][CylNext]_vars

\* The tolerance of a round trip: the model carries four digits, and the
\* encoding of sRGB is steep near 0.
CylTol == F(5, -2)

NearRGB(a, b) == Close(a.r, b.r, CylTol) /\ Close(a.g, b.g, CylTol) /\ Close(a.b, b.b, CylTol)

\* Red is the largest component and blue exceeds green.
RedOverBlue(c) == FGe(c.r, c.b) /\ FGt(c.b, c.g)

\* C21: an sRGB color within the gamut, converted to HSVColor or HSLColor
\* and back, is the color itself within tolerance.
CylRoundTrip == op = "back" => NearRGB(ret, self)

\* Where red is not the largest component with blue above green, it is.
CylRoundTripElsewhere == (op = "back" /\ ~RedOverBlue(self)) => NearRGB(ret, self)

\* C22: the hue of HSVColor::from_xyz and HSLColor::from_xyz lies between 0
\* and 360, in the red sector with blue above green too.
CylHueInRange ==
  (op = "convert" /\ RedOverBlue(self)) => FGe(ret.h, Zero) /\ FLe(ret.h, I(360))

\* The hue computed from the RGB components themselves.
CylHueOf(T, rgb) == IF T = "HSV" THEN HsvFromRgb(rgb).h ELSE HslFromRgb(rgb).h

\* Where red is not the largest component with blue above green the hue of
\* the components is in range, and it is 0 for a gray.
CylHueInRangeElsewhere ==
  (op = "convert" /\ ~RedOverBlue(self)) =>
    /\ FGe(CylHueOf(arg.T, self), Zero) /\ FLt(CylHueOf(arg.T, self), I(360))
    /\ (self.r = self.g /\ self.g = self.b) => CylHueOf(arg.T, self) = Zero

\* ---------------------------------------------------------------------------
\* ColorPoint::is_imaginary and ColorPoint::closest_real_color.

\* read_cie_spectral_data: the rows of cie-1931-standard-matching.csv, each an
\* XYZColor under D50. The file is supplied with the library; the rows for
\* 450, 520, 600 and 700 nm stand for it.
cie_spectral_data ==
  << XYZColor(F(3362, -4), F(380, -4), F(17721, -4), D50),
     XYZColor(F(633, -4), F(7100, -4), F(782, -4), D50),
     XYZColor(F(10622, -4), F(6310, -4), F(8, -4), D50),
     XYZColor(F(114, -4), F(41, -4), Zero, D50) >>

\* The closure uv_func of is_imaginary and closest_real_color.
uv_func(xyz) ==
  Only({ <<FDiv(FMul(I(4), xyz.x), denom), FDiv(FMul(I(9), xyz.y), denom)>> :
           denom \in {FAdd(FAdd(xyz.x, FMul(I(15), xyz.y)), FMul(I(3), xyz.z))} })

\* xyz_data.into_iter().map(uv_func).collect()
uv_data == [i \in 1..Len(cie_spectral_data) |-> uv_func(cie_spectral_data[i])]

\* f64::EPSILON at the precision of the arithmetic here.
EPSILON == F(1, -3)

\* geo: Line::contains(&Point), the point lies on the segment from start to end.
LineParam(p, start, d) == IF d[1] = 0 THEN NaN ELSE FDiv(FSub(p, start), d)
LineContainsAt(start, end, p, tx, ty) ==
  IF IsNaN(tx) /\ IsNaN(ty) THEN p = start
  ELSE IF IsNaN(ty) THEN p[2] = start[2] /\ FLe(Zero, tx) /\ FLe(tx, I(1))
  ELSE IF IsNaN(tx) THEN p[1] = start[1] /\ FLe(Zero, ty) /\ FLe(ty, I(1))
  ELSE FLe(FAbs(FSub(tx, ty)), EPSILON) /\ FLe(Zero, tx) /\ FLe(tx, I(1))
LineContains(start, end, p) ==
  LineContainsAt(start, end, p, LineParam(p[1], start[1], FSub(end[1], start[1])),
                 LineParam(p[2], start[2], FSub(end[2], start[2])))

\* geo: LineString::contains(&Point), the point is a vertex of the line string
\* or lies on one of its segments.
LineStringContains(line, p) ==
  IF Len(line) = 0 THEN FALSE
  ELSE IF Len(line) = 1 THEN line[1] = p
  ELSE \/ \E i \in 1..Len(line) : line[i] = p
       \/ \E i \in 1..(Len(line) - 1) : LineContains(line[i], line[i + 1], p)

\* ColorPoint::is_imaginary, from the receiver converted to XYZColor.
is_imaginary_of(xyz) == LineStringContains(uv_data, uv_func(xyz))
is_imaginary(c) == is_imaginary_of(convert(c, "XYZ"))

\* geo: Line::closest_point(&Point).
Indeterminate == [kind |-> "Indeterminate"]
SinglePoint(p) == [kind |-> "SinglePoint", p |-> p]
Intersection(p) == [kind |-> "Intersection", p |-> p]
Dot(a, b) == FAdd(FMul(a[1], b[1]), FMul(a[2], b[2]))
LineClosestAt(start, end, p, d, t) ==
  IF FLt(t, Zero) THEN SinglePoint(start)
  ELSE IF FGt(t, I(1)) THEN SinglePoint(end)
  ELSE IF LineContains(start, end, p)
       THEN Intersection(<<FAdd(start[1], FMul(t, d[1])), FAdd(start[2], FMul(t, d[2]))>>)
       ELSE SinglePoint(<<FAdd(start[1], FMul(t, d[1])), FAdd(start[2], FMul(t, d[2]))>>)
LineClosestDir(start, end, p, d) ==
  IF hypot(d[1], d[2]) = Zero THEN Indeterminate
  ELSE LineClosestAt(start, end, p, d,
                     FDiv(Dot(<<FSub(p[1], start[1]), FSub(p[2], start[2])>>, d), Dot(d, d)))
LineClosest(start, end, p) ==
  LineClosestDir(start, end, p, <<FSub(end[1], start[1]), FSub(end[2], start[2])>>)

\* geo: Closest::best_of_two.
PointDistance(a, b) == hypot(FSub(a[1], b[1]), FSub(a[2], b[2]))
best_of_two(left, right, p) ==
  IF left.kind = "Indeterminate" THEN right
  ELSE IF left.kind = "Intersection" THEN left
  ELSE IF right.kind = "Indeterminate" THEN left
  ELSE IF right.kind = "Intersection" THEN right
  ELSE IF FLe(PointDistance(left.p, p), PointDistance(right.p, p)) THEN left ELSE right

\* geo: LineString::closest_point(&Point), the best over the segments in order.
RECURSIVE closest_of(_, _, _, _)
closest_of(line, i, best, p) ==
  IF i >= Len(line) THEN best
  ELSE closest_of(line, i + 1, best_of_two(best, LineClosest(line[i], line[i + 1], p), p), p)
closest_point(line, p) == closest_of(line, 1, Indeterminate, p)

\* The else branch of closest_real_color: u and v of the receiver as a
\* CIELUVColor are replaced by the closest point of the line string.
WithClosest(self_luv, closest) ==
  IF closest.kind = "Indeterminate"
  THEN Panic("Indeterminate closest point! Please report this error")
  ELSE CIELUVColor(self_luv.l, closest.p[1], closest.p[2])
closest_real_luv(self_luv) == WithClosest(self_luv, closest_point(uv_data, <<self_luv.u, self_luv.v>>))
closest_real_else(c) ==
  Only({ IF luv.space = "CIELUV" THEN convert(luv, c.space) ELSE luv :
           luv \in {closest_real_luv(convert(c, "CIELUV"))} })

\* ColorPoint::closest_real_color.
closest_real_color(c) == IF ~is_imaginary(c) THEN c ELSE closest_real_else(c)

\* Receivers: hub values on a grid, the tabulated rows themselves, and two
\* sRGB colors.
ImagLevels == { Zero, F(2, -1), F(5, -1), I(1) }
ImagColors ==
  { XYZColor(x, y, z, D50) : x \in ImagLevels, y \in ImagLevels, z \in ImagLevels }
    \cup { cie_spectral_data[i] : i \in 1..Len(cie_spectral_data) }
    \cup { RGBColor(F(5, -1), F(5, -1), F(5, -1)), RGBColor(I(1), Zero, Zero) }

ImagInit == op = "new" /\ self \in ImagColors /\ arg = << >> /\ ret = << >>

\* self.is_imaginary()
IsImaginary ==
  /\ op = "new"
  /\ op' = "is_imaginary"
  /\ ret' = is_imaginary(self)
  /\ UNCHANGED <<self, arg>>

\* self.closest_real_color()
ClosestRealColor ==
  /\ op = "new"
  /\ op' = "closest_real_color"
  /\ ret' = closest_real_color(self)
  /\ UNCHANGED <<self, arg>>

ImagNext == IsImaginary \/ ClosestRealColor

SpecImaginary == ImagInit /\ [][ImagNext]_vars

\* The polygon enclosed by the tabulated locus, closed by the line from its
\* last point to its first: which side of an edge a point is on, and whether
\* the point is inside the polygon or on its boundary (the polygon is convex).
EdgeSide(a, b, p) ==
  SignOf(FSub(FMul(FSub(b[1], a[1]), FSub(p[2], a[2])), FMul(FSub(b[2], a[2]), FSub(p[1], a[1]))))
LocusSides(p) ==
  { EdgeSide(uv_data[i], uv_data[(i % Len(uv_data)) + 1], p) : i \in 1..Len(uv_data) }
InsideOrOnLocus(p) == ~(1 \in LocusSides(p) /\ -1 \in LocusSides(p))
HasChromaticity(c) == c.space = "XYZ" /\ IsFinite(uv_func(c)[1]) /\ IsFinite(uv_func(c)[2])

\* C23: is_imaginary is true exactly for the colors whose (u', v') lies outside
\* the polygon enclosed by the tabulated locus, and false inside it and on its
\* boundary.
ImaginaryIffOutside ==
  (op = "is_imaginary" /\ HasChromaticity(self)) => (ret <=> ~InsideOrOnLocus(uv_func(self)))

\* What the code does instead: true exactly on the tabulated line itself.
ImaginaryIffOnLine ==
  (op = "is_imaginary" /\ HasChromaticity(self)) =>
    (ret <=> \E i \in 1..Len(cie_spectral_data) : uv_func(self) = uv_data[i])

\* The second half of C23 (it holds): a color that is not imaginary is its own
\* closest real color.
RealColorKept ==
  op = "closest_real_color" => (~is_imaginary(self) => ret = self)

\* ---------------------------------------------------------------------------
\* Mix::mix of XYZColor, next to the one of the types with a Coord embedding.

\* (c1 + c2) / 2.0 of impl Mix for XYZColor; the divisor is not zero.
xyz_mixed_coord(c1, c2) == coord_div(coord_add(c1, c2), I(2))

\* impl Mix for XYZColor, from other adapted to the illuminant of self.
xyz_mix_of(c, other_c) ==
  Only({ XYZColor(mixed_coord.x, mixed_coord.y, mixed_coord.z, c.illuminant) :
           mixed_coord \in {xyz_mixed_coord(Coord(c.x, c.y, c.z),
                                            Coord(other_c.x, other_c.y, other_c.z))} })
xyz_mix(c, other) == xyz_mix_of(c, color_adapt(other, c.illuminant))

\* The colors of test_mix_xyz and three more, each under D65 and under D50.
MixXyzCoords ==
  { <<F(5, -1), F(25, -2), F(75, -2)>>, <<F(625, -3), F(375, -3), F(5, -1)>>,
    <<F(75, -2), F(5, -1), F(25, -2)>>, <<Zero, Zero, Zero>>,
    <<F(2, -1), I(1), F(-1, -1)>>, <<F(9, -1), F(9, -1), F(9, -1)>> }
MixXyzColors == { XYZOf(v, ill) : v \in MixXyzCoords, ill \in {D50, D65} }

CommuteInit ==
  /\ op = "new"
  /\ (self \in MixXyzColors \/ self \in MixColors)
  /\ arg = << >>
  /\ ret = << >>

\* self.mix(other) on XYZColor
MixXyz(other) ==
  /\ op = "new"
  /\ self.space = "XYZ"
  /\ op' = "mix"
  /\ arg' = other
  /\ ret' = xyz_mix(self, other)
  /\ UNCHANGED self

\* self.mix(other) on a type with a Coord embedding
MixCoord(other) ==
  /\ op = "new"
  /\ self.space # "XYZ"
  /\ op' = "mix"
  /\ arg' = other
  /\ ret' = mix(self, other)
  /\ UNCHANGED self

CommuteNext ==
  \/ \E other \in MixXyzColors : MixXyz(other)
  \/ \E other \in {c \in MixColors : c.space = self.space} : MixCoord(other)

SpecCommute == CommuteInit /\ [][CommuteNext]_vars

\* other.mix(self), by the implementation of the operands' type.
MixSwapped(c, other) == IF c.space = "XYZ" THEN xyz_mix(other, c) ELSE mix(other, c)

\* C24: mixing is commutative within a type, a.mix(b) == b.mix(a), for
\* XYZColor also when the operands carry different illuminants.
MixCommutes == op = "mix" => ret = MixSwapped(self, arg)

\* What holds: the two orders agree exactly for the types with an embedding
\* and for hub values under one illuminant; under two illuminants each result
\* carries the illuminant of its receiver, and the two are one color once
\* adapted to a common illuminant.
MixXyzTol == F(1, -2)
SameIlluminant(a, b) == a.space = "XYZ" => a.illuminant = b.illuminant
NearXYZ(a, b) ==
  /\ a.illuminant = b.illuminant
  /\ Close(a.x, b.x, MixXyzTol) /\ Close(a.y, b.y, MixXyzTol) /\ Close(a.z, b.z, MixXyzTol)
MixCommutesUpToAdaptation ==
  op = "mix" =>
    IF SameIlluminant(self, arg) THEN ret = MixSwapped(self, arg)
    ELSE /\ ret.illuminant = self.illuminant
         /\ MixSwapped(self, arg).illuminant = arg.illuminant
         /\ NearXYZ(ret, color_adapt(MixSwapped(self, arg), self.illuminant))

\* ---------------------------------------------------------------------------
\* The four perceptual setters followed by their getters.

\* The value set_chroma assigns to lch.c.
set_chroma_c(new_chroma) == IF FLt(new_chroma, Zero) THEN Zero ELSE new_chroma

\* The value set_saturation assigns to lch.c.
set_saturation_c(new_sat, l) == IF FLt(new_sat, Zero) THEN Zero ELSE FMul(new_sat, l)

\* The intermediate of a setter after its assignment.
setter_assign(name, x, v) ==
  CASE name = "hue"        -> CIELCHColor(x.l, x.c, set_hue_h(v))
    [] name = "lightness"  -> CIELABColor(set_lightness_l(v), x.a, x.b)
    [] name = "chroma"     -> CIELCHColor(x.l, set_chroma_c(v), x.h)
    [] name = "saturation" -> CIELCHColor(x.l, set_saturation_c(v, x.l), x.h)

\* set_hue, set_lightness, set_chroma and set_saturation: the new *self.
setter(name, receiver, v) ==
  Only({ convert(mid, receiver.space) :
           mid \in {setter_assign(name, convert(receiver, derived_type(name)), v)} })

\* Receivers: chromatic colors of five types, two grays and two blacks.
AgreeColors ==
  { RGBColor(F(2, -1), F(5, -1), F(8, -1)),
    RGBColor(F(5, -1), F(5, -1), F(5, -1)),
    RGBColor(Zero, Zero, Zero),
    CIELABColor(I(50), I(20), I(-30)),
    CIELABColor(Zero, Zero, Zero),
    CIELCHColor(I(60), I(30), I(100)),
    CIELCHColor(I(50), Zero, Zero),
    HSVColor(I(200), F(5, -1), F(8, -1)),
    HSLColor(I(120), F(5, -1), F(5, -1)) }

\* Legal values of each property.
AgreeValues(name) ==
  CASE name = "hue"        -> { Zero, I(90), I(200), I(330) }
    [] name = "lightness"  -> { Zero, I(50), I(100) }
    [] name = "chroma"     -> { Zero, I(10), I(30) }
    [] name = "saturation" -> { Zero, F(5, -1), I(1) }

AgreeInit == op = "new" /\ self \in AgreeColors /\ arg = << >> /\ ret = << >>

\* self.set_hue(v), self.set_lightness(v), self.set_chroma(v) or
\* self.set_saturation(v)
Set(name, v) ==
  /\ op = "new"
  /\ op' = "set"
  /\ arg' = [name |-> name, v |-> v, receiver |-> self]
  /\ self' = setter(name, self, v)
  /\ UNCHANGED ret

\* self.hue(), self.lightness(), self.chroma() or self.saturation(), of the
\* property just set
Get ==
  /\ op = "set"
  /\ op' = "get"
  /\ ret' = derived(arg.name, self)
  /\ UNCHANGED <<self, arg>>

AgreeNext ==
  \/ \E name \in DerivedOps : \E v \in AgreeValues(name) : Set(name, v)
  \/ Get

SpecAgree == AgreeInit /\ [][AgreeNext]_vars

\* How far a getter may be from the value set, at the precision of the
\* arithmetic here.
AgreeTol(name) == IF name = "saturation" THEN F(5, -2) ELSE I(2)
HueClose(a, b) ==
  \/ Close(a, b, AgreeTol("hue"))
  \/ Close(FAdd(a, I(360)), b, AgreeTol("hue"))
  \/ Close(a, FAdd(b, I(360)), AgreeTol("hue"))
Agrees(name, got, v) == IF name = "hue" THEN HueClose(got, v) ELSE Close(got, v, AgreeTol(name))

\* C25: after set_hue(v), set_chroma(v), set_lightness(v) or
\* set_saturation(v) with a legal v the getter of the same property returns
\* v, for every color, achromatic colors and black included.
SetterGetterAgree == op = "get" => Agrees(arg.name, ret, arg.v)


\* What holds: the getter returns the value set on the chromatic receivers
\* that are not black and not HSVColor or HSLColor, and chroma and lightness
\* also on the grays and blacks.
AgreeChromatic ==
  { RGBColor(F(2, -1), F(5, -1), F(8, -1)), CIELABColor(I(50), I(20), I(-30)),
    CIELCHColor(I(60), I(30), I(100)) }
SetterGetterAgreeElsewhere ==
  op = "get" =>
    /\ arg.receiver \in AgreeChromatic => Agrees(arg.name, ret, arg.v)
    /\ (arg.name \in {"chroma", "lightness"} /\ arg.receiver.space \notin {"HSV", "HSL"})
         => Agrees(arg.name, ret, arg.v)

\* ---------------------------------------------------------------------------
\* The hue difference and the mean hue inside Color::distance.

\* Both adjusted chromas are not zero and both adjusted hues are in [0, 360).
ChromaticPair(d) ==
  /\ ~FEq(d.c_prime_1, Zero) /\ ~FEq(d.c_prime_2, Zero)
  /\ FGe(d.h_prime_1, Zero) /\ FLt(d.h_prime_1, I(360))
  /\ FGe(d.h_prime_2, Zero) /\ FLt(d.h_prime_2, I(360))

\* h2' - h1' as the code computes it.
HueGap(d) == FSub(d.h_prime_2, d.h_prime_1)

\* C26: with both adjusted chromas nonzero and both adjusted hues in
\* [0, 360), the signed hue difference is the one of smallest magnitude: it
\* lies in [-180, 180] and is h2' - h1' itself when that is at most 180 in
\* magnitude, h2' - h1' - 360 when it is above 180 and h2' - h1' + 360 when it
\* is below -180.
HueDifferenceSmallest ==
  (op = "distance" /\ ChromaticPair(ret)) =>
    /\ FGe(ret.delta_angle_h, I(-180)) /\ FLe(ret.delta_angle_h, I(180))
    /\ FLe(FAbs(HueGap(ret)), I(180)) => ret.delta_angle_h = HueGap(ret)
    /\ FGt(HueGap(ret), I(180)) => ret.delta_angle_h = FSub(HueGap(ret), I(360))
    /\ FLt(HueGap(ret), I(-180)) => ret.delta_angle_h = FAdd(HueGap(ret), I(360))

\* Two chromatic colors whose hues are more than 180 degrees apart, in
\* either order.
HueDifferenceWitness ==
  /\ op = "distance" /\ ChromaticPair(ret)
  /\ FGt(HueGap(ret), I(180))
  /\ ret.delta_angle_h = FSub(HueGap(ret), I(360))
  /\ FLt(ret.delta_angle_h, Zero)

\* The angular distance between two hues.
HueApart(a, b) ==
  IF FLe(FAbs(FSub(a, b)), I(180)) THEN FAbs(FSub(a, b)) ELSE FSub(I(360), FAbs(FSub(a, b)))

\* The rounding allowed on a distance of exactly 90 degrees.
MeanHueTol == F(1, -1)

\* C27: the mean hue is h1' + h2' when either adjusted chroma is zero,
\* (h1' + h2') / 2 when the hues are at most 180 apart, and otherwise
\* (h1' + h2' + 360) / 2 if h1' + h2' < 360 and (h1' + h2' - 360) / 2 if not;
\* for a chromatic pair it lies in [0, 360) and is at most 90 degrees away
\* from each of the two hues.
MeanHueBranches ==
  op = "distance" =>
    /\ ret.h_bar_prime =
         (IF FEq(ret.c_prime_1, Zero) \/ FEq(ret.c_prime_2, Zero)
            THEN FAdd(ret.h_prime_1, ret.h_prime_2)
          ELSE IF FLe(FAbs(FSub(ret.h_prime_1, ret.h_prime_2)), I(180))
            THEN FDiv(FAdd(ret.h_prime_1, ret.h_prime_2), I(2))
          ELSE IF FLt(FAdd(ret.h_prime_1, ret.h_prime_2), I(360))
            THEN FDiv(FAdd(FAdd(ret.h_prime_1, ret.h_prime_2), I(360)), I(2))
          ELSE FDiv(FSub(FAdd(ret.h_prime_1, ret.h_prime_2), I(360)), I(2)))
    /\ ChromaticPair(ret) =>
         /\ FGe(ret.h_bar_prime, Zero) /\ FLt(ret.h_bar_prime, I(360))
         /\ FLe(HueApart(ret.h_bar_prime, ret.h_prime_1), FAdd(I(90), MeanHueTol))
         /\ FLe(HueApart(ret.h_bar_prime, ret.h_prime_2), FAdd(I(90), MeanHueTol))

\* Two chromatic colors more than 180 degrees apart whose hues add up to
\* less than 360: the mean is past the larger hue.
MeanHueWitness ==
  /\ op = "distance" /\ ChromaticPair(ret)
  /\ FGt(FAbs(HueGap(ret)), I(180))
  /\ FLt(FAdd(ret.h_prime_1, ret.h_prime_2), I(360))
  /\ FGt(ret.h_bar_prime, ret.h_prime_1) /\ FGt(ret.h_bar_prime, ret.h_prime_2)

\* The same with hues that add up to 360 or more: the mean is before the
\* smaller hue.
MeanHueWitnessHigh ==
  /\ op = "distance" /\ ChromaticPair(ret)
  /\ FGt(FAbs(HueGap(ret)), I(180))
  /\ FGe(FAdd(ret.h_prime_1, ret.h_prime_2), I(360))
  /\ FLt(ret.h_bar_prime, ret.h_prime_1) /\ FLt(ret.h_bar_prime, ret.h_prime_2)

\* ---------------------------------------------------------------------------
\* parse_css_number. A string is the sequence of its characters.

CssDigits == <<"0", "1", "2", "3", "4", "5", "6", "7", "8", "9">>
IsCssDigit(c) == \E i \in 1..10 : CssDigits[i] = c
CssDigitValue(c) == (CHOOSE i \in 1..10 : CssDigits[i] = c) - 1

\* The characters of "0123456789-+.%".
CssNumericChars == { CssDigits[i] : i \in 1..10 } \cup { "-", "+", ".", "%" }

\* The number a string of digits denotes.
RECURSIVE CssDigitsValue(_)
CssDigitsValue(s) ==
  IF s = << >> THEN 0
  ELSE 10 * CssDigitsValue(SubSeq(s, 1, Len(s) - 1)) + CssDigitValue(s[Len(s)])

CountOf(s, c) == Cardinality({ i \in 1..Len(s) : s[i] = c })

\* str::parse::<u64>: an optional '+' and at least one digit, nothing else.
UnsignedDigits(s) == IF s # << >> /\ s[1] = "+" THEN Tail(s) ELSE s
parse_u64(s) ==
  IF UnsignedDigits(s) # << >> /\ \A i \in 1..Len(UnsignedDigits(s)) : IsCssDigit(UnsignedDigits(s)[i])
  THEN Ok(CssDigitsValue(UnsignedDigits(s)))
  ELSE Err("ParseIntError")

\* str::parse::<f64> on the strings that reach it, which hold one '.' and no
\* letter: an optional sign, digits around the point, at least one digit. The
\* value is the digits taken as an integer, m, scaled by ten to the e.
FloatDigits(s) == IF s # << >> /\ s[1] \in {"+", "-"} THEN Tail(s) ELSE s
FloatSign(s) == IF s # << >> /\ s[1] = "-" THEN -1 ELSE 1
PointAt(s) == CHOOSE i \in 1..Len(s) : s[i] = "."
parse_f64_digits(sign, d) ==
  IF /\ CountOf(d, ".") = 1 /\ Len(d) > 1
     /\ \A i \in 1..Len(d) : IsCssDigit(d[i]) \/ d[i] = "."
  THEN Ok([m |-> sign * CssDigitsValue(SelectSeq(d, IsCssDigit)), e |-> PointAt(d) - Len(d)])
  ELSE Err("ParseFloatError")
parse_f64(s) == parse_f64_digits(FloatSign(s), FloatDigits(s))

\* parse_css_integer and parse_css_float: parse().unwrap(), the value kept
\* under its Ok tag or the panic.
unwrap(result) ==
  IF result.tag = "Ok" THEN result
  ELSE Panic("called Result::unwrap() on an Err value")
parse_css_integer(num) == unwrap(parse_u64(num))
parse_css_float(num) == unwrap(parse_f64(num))

CSSInteger(int) == [kind |-> "Integer", value |-> int]
CSSPercentage(int) == [kind |-> "Percentage", value |-> int]
CSSFloat(float) == [kind |-> "Float", value |-> float]

\* if is_positive { uint as isize } else { -(uint as isize) }, and the same
\* for the float; a panic of the parse passes through.
css_signed(kind, is_positive, u) ==
  IF u.tag = "panic" THEN u
  ELSE IF kind = "Float"
       THEN Ok([kind |-> kind,
                value |-> [m |-> IF is_positive THEN u.value.m ELSE -u.value.m, e |-> u.value.e]])
  ELSE Ok([kind |-> kind, value |-> IF is_positive THEN u.value ELSE -u.value])

\* parse_css_number after the first character has been looked at.
css_number_body(chars, is_positive) ==
  IF chars = << >> THEN Err("InvalidNumericSyntax")
  ELSE IF \E i \in 1..Len(chars) : chars[i] \in {"-", "="} THEN Err("InvalidNumericSyntax")
  ELSE IF CountOf(chars, ".") = 0
       THEN IF CountOf(chars, "%") = 0
              THEN css_signed("Integer", is_positive, parse_css_integer(chars))
            ELSE IF CountOf(chars, "%") = 1
              THEN IF chars[Len(chars)] = "%"
                     THEN css_signed("Percentage", is_positive,
                                     parse_css_integer(SubSeq(chars, 1, Len(chars) - 1)))
                   ELSE Err("InvalidNumericSyntax")
            ELSE Err("InvalidNumericSyntax")
  ELSE IF CountOf(chars, ".") = 1
       THEN css_signed("Float", is_positive, parse_css_float(chars))
  ELSE Err("InvalidNumericSyntax")

\* parse_css_number.
parse_css_number(num) ==
  IF ~(\A i \in 1..Len(num) : num[i] \in CssNumericChars) THEN Err("InvalidNumericCharacters")
  ELSE IF num = << >> THEN Panic("index out of bounds: the len is 0 but the index is 0")
  ELSE css_number_body(IF num[1] \in {"-", "+"} THEN Tail(num) ELSE num, num[1] # "-")

\* Inputs: every string of up to MaxCssLen characters over two digits, the
\* two signs, the point, the percent sign and a letter, and the longer strings
\* of the tests and of the documentation.
MaxCssLen == 3
CssAlphabet == { "1", "2", "+", "-", ".", "%", "a" }
CssStrings ==
  UNION { [1..n -> CssAlphabet] : n \in 0..MaxCssLen }
    \cup { <<"4", "5", ".", "5", "%">>, <<"-", "2", "4", "%", "%">>, <<"1", "%", "2", "%">>,
           <<"1", "4", ".", "2", "3", ".", "2">>, <<"+", "1", "0", "4", "%">>,
           <<"-", "0", ".", "8">>, <<"2", "5", "5">>, <<"1", "2", "3", ".", "4", "2">> }

CssInit == op = "new" /\ self = << >> /\ arg \in CssStrings /\ ret = << >>

\* parse_css_number(arg)
ParseCssNumber ==
  /\ op = "new"
  /\ op' = "parse_css_number"
  /\ ret' = parse_css_number(arg)
  /\ UNCHANGED <<self, arg>>

CssNext == ParseCssNumber

SpecCss == CssInit /\ [][CssNext]_vars

\* A '+' or '-' after the first character, and a percentage whose number has
\* a point.
SignInside(s) == \E i \in 2..Len(s) : s[i] \in {"+", "-"}
FractionalPercentage(s) == Len(s) > 0 /\ s[Len(s)] = "%" /\ CountOf(s, ".") > 0

\* C28: parse_css_number returns Ok or Err for every string and never panics;
\* a '+' or '-' after the first character and a percentage that is not a
\* whole number yield Err.
ParseCssNumberTotal ==
  op = "parse_css_number" =>
    /\ ret.tag \in {"Ok", "Err"}
    /\ (SignInside(arg) \/ FractionalPercentage(arg)) => ret.tag = "Err"

\* What holds: a string with a character outside the sixteen, with a '-'
\* after the first character, with two points or with a '%' that is not its
\* one last character is an Err; the well-formed numbers are parsed to their
\* values.
ParseCssNumberErrors ==
  op = "parse_css_number" =>
    /\ (\E i \in 1..Len(arg) : arg[i] \notin CssNumericChars)
         => ret = Err("InvalidNumericCharacters")
    /\ ((\A i \in 1..Len(arg) : arg[i] \in CssNumericChars) /\
        (\/ \E i \in 2..Len(arg) : arg[i] = "-"
         \/ CountOf(arg, ".") > 1
         \/ CountOf(arg, ".") = 0 /\ CountOf(arg, "%") > 1))
         => ret = Err("InvalidNumericSyntax")
    /\ arg = <<"2", "5", "5">> => ret = Ok(CSSInteger(255))
    /\ arg = <<"+", "1", "0", "4", "%">> => ret = Ok(CSSPercentage(104))
    /\ arg = <<"-", "0", ".", "8">> => ret = Ok(CSSFloat([m |-> -8, e |-> -1]))
    /\ arg = <<"1", "2", "3", ".", "4", "2">> => ret = Ok(CSSFloat([m |-> 12342, e |-> -2]))

\* ---------------------------------------------------------------------------
\* Color::to_xyz on receivers of every type, XYZColor included.

HubInit ==
  /\ op = "new"
  /\ (self \in HubInputs \/ self \in ColorInputs)
  /\ arg = << >>
  /\ ret = << >>

\* self.to_xyz(illuminant)
ToHub(illuminant) ==
  /\ op = "new"
  /\ op' = "to_xyz"
  /\ arg' = [illuminant |-> illuminant]
  /\ ret' = to_xyz(self, illuminant)
  /\ UNCHANGED self

HubNext == \E illuminant \in ConvertIlluminants : ToHub(illuminant)

SpecHub == HubInit /\ [][HubNext]_vars

\* C29: for every type and every illuminant I, to_xyz(I) returns a hub value
\* tagged with I, XYZColor included.
ToXyzTagged ==
  op = "to_xyz" => (ret.space = "XYZ" /\ ret.illuminant = arg.illuminant)

\* What holds: the tag is I for every receiver that is not an XYZColor, and
\* an XYZColor is returned as it is.
ToXyzTaggedElsewhere ==
  op = "to_xyz" =>
    /\ ret.space = "XYZ"
    /\ self.space # "XYZ" => ret.illuminant = arg.illuminant
    /\ self.space = "XYZ" => ret = self

\* ---------------------------------------------------------------------------
\* weighted_average with as many weights as colors.

FiniteCoord(c) == IsFinite(c.x) /\ IsFinite(c.y) /\ IsFinite(c.z)
MatchingCounts == op = "weighted_average" /\ Len(arg.others) + 1 = Len(arg.weights)

\* C30: with as many weights as colors weighted_average returns Ok with
\* finite components and never panics, also when the weights sum to zero.
AverageNeverPanics ==
  MatchingCounts => (ret.tag # "panic" /\ ret.tag = "Ok" /\ FiniteCoord(into_coord(ret.value)))

\* What holds: the same for weights whose sum is not zero; a zero sum is the
\* panic of Coord's division.
AverageFiniteUnlessZeroSum ==
  MatchingCounts =>
    IF is_zero(weights_sum(arg.weights, Len(arg.weights)))
    THEN ret = Panic("Division by 0!")
    ELSE ret.tag = "Ok" /\ FiniteCoord(into_coord(ret.value))

=============================================================================
